---- MODULE Spec2Model ----
(***************************************************************************)
(* Model of the TMUA Guide API (21stCenturyParagon/RISE): the paginated    *)
(* question listing of app/routers/questions.py, the attempt recording of  *)
(* app/routers/progress.py and the batch import that feeds the catalog.    *)
(* The remote tables TMUA and user_progress are state variables; every     *)
(* .execute() of the source is one atomic round trip against them.         *)
(***************************************************************************)
EXTENDS Integers, Sequences, FiniteSets, TLC

\* ------------------------------------------------------------------ bounds
NumQuestions == 3       \* ques_number values 1..NumQuestions may exist
MaxPage      == 3       \* page inputs 0..MaxPage
MaxSize      == 2       \* size inputs 0..MaxSize (and SizeLimit + 1)
MaxAttempts  == 3       \* rows the user_progress table may hold
MaxNow       == 3       \* the clock runs over ticks 0..MaxNow
TicksPerDay  == 2       \* clock ticks in one calendar day

\* ------------------------------------------------- program constants
PageMin   == 1          \* Query(1, ge=1)
PageDefault == 1        \* Query(1, ge=1)
SizeDefault == 10       \* Query(10, ge=1, le=100)
SizeMin   == 1          \* Query(10, ge=1, le=100)
SizeLimit == 100        \* Query(10, ge=1, le=100)
WeekDays  == 7          \* timedelta(days=7)
MonthDays == 30         \* timedelta(days=30)
BatchSize == 50         \* batch_size = 50

\* ------------------------------------------------------- optional values
\* Python's Optional[T]: None is the empty tuple, a value v is <<v>>.
None == << >>
Some(v) == <<v>>

\* `if difficulty:` -- None and the empty string are both falsy.
Truthy(opt) == opt # None /\ opt[1] # ""

\* `if q_type is not None:` -- 0 is a value, only None is skipped.
IsNotNone(opt) == opt # None

\* ------------------------------------------------------------ the tables
Users == {"u1", "u2"}

\* A row of table TMUA.  Only the columns the routers filter or order on are
\* kept; the text columns (question, options, solution, ...) are opaque.
QuestionRow(n) ==
    [ques_number |-> n,
     difficulty  |-> IF n % 3 = 0 THEN "easy" ELSE "hard",
     topic       |-> IF n % 4 = 0 THEN "logic" ELSE "algebra",
     source      |-> IF n % 2 = 0 THEN "2020" ELSE "2019",
     q_type      |-> IF n % 3 = 0 THEN 1 ELSE 0]

QuestionBank == {QuestionRow(n) : n \in 1..NumQuestions}

\* The questions attempts are recorded on.
AttemptedQuestions == {1}

\* A row of table user_progress (ProgressCreate plus the owner).
AttemptRows ==
    [user_id : Users, question_id : AttemptedQuestions, is_correct : BOOLEAN]

VARIABLES
    catalog,    \* table TMUA: a set of rows, ques_number unique
    progress,   \* table user_progress: rows in insertion order
    lst,        \* the get_questions request in flight and its response
    prev,       \* the response of the identical request served just before
    op,         \* the other request of the observed client, and its response
    now,        \* the clock, in ticks
    accounts    \* the identities the identity provider holds

vars == <<catalog, progress, lst, prev, op, now, accounts>>

\* ------------------------------------------------------ request builder
\* supabase.table("TMUA").select("*", count="exact")
TableSelect == [params |-> << >>, range |-> None, order |-> None]

\* query.eq(column, value): one more conjunct
Eq(q, col, val) == [q EXCEPT !.params = Append(@, <<col, val>>)]

\* A mutant of Range: the limit is kept, the offset is lost.
RangeLimitOnly(q, start, end) == [q EXCEPT !.range = Some(<<0, end - start>>)]

\* query.range(start, end): both ends inclusive
Range(q, start, end) == [q EXCEPT !.range = Some(<<start, end>>)]

\* A mutant of Order: the ordering is dropped.
OrderDropped(q, col) == q

\* query.order(column): ascending
Order(q, col) == [q EXCEPT !.order = Some(col)]

\* A mutant of ApplyFilters: the source filter is forgotten.
ApplyFiltersNoSource(q, difficulty, topic, source, q_type) ==
    LET q1 == IF Truthy(difficulty) THEN Eq(q, "difficulty", difficulty[1]) ELSE q
        q2 == IF Truthy(topic) THEN Eq(q1, "topic", topic[1]) ELSE q1
    IN  IF IsNotNone(q_type) THEN Eq(q2, "q_type", q_type[1]) ELSE q2

\* questions.py 42-50
ApplyFilters(q, difficulty, topic, source, q_type) ==
    LET q1 == IF Truthy(difficulty) THEN Eq(q, "difficulty", difficulty[1]) ELSE q
        q2 == IF Truthy(topic) THEN Eq(q1, "topic", topic[1]) ELSE q1
        q3 == IF Truthy(source) THEN Eq(q2, "source", source[1]) ELSE q2
    IN  IF IsNotNone(q_type) THEN Eq(q3, "q_type", q_type[1]) ELSE q3

\* The rows of a table that satisfy every eq() conjunct of the request.
Selected(q, table) ==
    {r \in table : \A i \in 1..Len(q.params) : r[q.params[i][1]] = q.params[i][2]}

RECURSIVE SortAsc(_)
SortAsc(S) ==
    IF S = {} THEN << >>
    ELSE LET m == CHOOSE r \in S : \A x \in S : r.ques_number <= x.ques_number
         IN  <<m>> \o SortAsc(S \ {m})

\* Every enumeration of a set of rows: the store promises no order unless asked.
Enumerations(S) ==
    {s \in [1..Cardinality(S) -> S] : \A i, j \in 1..Cardinality(S) : s[i] = s[j] => i = j}

\* A mutant of Slice: the end of the range is taken as exclusive.
SliceEndExclusive(s, start, end) ==
    LET hi == IF end < Len(s) THEN end ELSE Len(s)
    IN  IF start + 1 > hi THEN << >> ELSE SubSeq(s, start + 1, hi)

\* rows start..end (0-based, inclusive) of a sequence
Slice(s, start, end) ==
    LET hi == IF end + 1 < Len(s) THEN end + 1 ELSE Len(s)
    IN  IF start + 1 > hi THEN << >> ELSE SubSeq(s, start + 1, hi)

\* The row lists .execute() may return for a request against a table.
ExecuteData(q, table) ==
    LET rows == Selected(q, table)
        ordered == IF q.order # None THEN {SortAsc(rows)} ELSE Enumerations(rows)
    IN  IF q.range = None THEN ordered
        ELSE {Slice(s, q.range[1][1], q.range[1][2]) : s \in ordered}

\* A mutant of ExecuteCount: every row of the table is counted.
ExecuteCountUnfiltered(q, table) == Cardinality(table)

\* count="exact": the number of selected rows, whatever the range
ExecuteCount(q, table) == Cardinality(Selected(q, table))

\* ----------------------------------------------------------- pagination
\* A mutant of Skip: pages counted from 0.
SkipFromPage(page, size) == page * size

\* questions.py 37
Skip(page, size) == (page - 1) * size

\* A mutant of TotalPages: floor instead of ceiling.
TotalPagesFloor(total_count, size) == total_count \div size

\* questions.py 61: math.ceil(total_count / size)
TotalPages(total_count, size) ==
    IF total_count % size = 0 THEN total_count \div size
    ELSE total_count \div size + 1

\* A mutant of HasNext: off by one at the last page.
HasNextInclusive(page, total_pages) == page <= total_pages

\* questions.py 62
HasNext(page, total_pages) == page < total_pages

\* questions.py 63
HasPrevious(page) == page > 1

\* questions.py 65-75
PaginatedResponse(items, total_count, page, size) ==
    LET total_pages  == TotalPages(total_count, size)
        has_next     == HasNext(page, total_pages)
        has_previous == HasPrevious(page)
    IN  [items         |-> items,
         total         |-> total_count,
         page          |-> page,
         size          |-> size,
         total_pages   |-> total_pages,
         has_next      |-> has_next,
         has_previous  |-> has_previous,
         next_page     |-> IF has_next THEN Some(page + 1) ELSE None,
         previous_page |-> IF has_previous THEN Some(page - 1) ELSE None]

\* ------------------------------------------------------------- requests
DifficultyInputs == {None, Some(""), Some("hard")}
TopicInputs      == {None, Some("algebra")}
SourceInputs     == {None, Some("2019")}
QTypeInputs      == {None, Some(0)}

\* GET /questions?page=&size=&difficulty=&topic=&source=&q_type=&status=
\* `status` is sent by the client; get_questions declares no such parameter.
ListRequests(users, statuses) ==
    [user       : users,
     page       : 0..MaxPage,
     size       : (0..MaxSize) \cup {SizeLimit + 1},
     difficulty : DifficultyInputs,
     topic      : TopicInputs,
     source     : SourceInputs,
     q_type     : QTypeInputs,
     status     : statuses]

\* Requests that carry no status parameter.
PlainRequests == ListRequests({"u1"}, {{}})

\* The status sets a client may ask for.
StatusInputs == {{}, {"correct"}, {"unattempted"}, {"correct", "unattempted"}}

\* First-page requests that may carry a status filter, otherwise unfiltered.
StatusRequests ==
    {r \in ListRequests(Users, StatusInputs) :
        /\ r.difficulty = None /\ r.topic = None /\ r.source = None /\ r.q_type = None
        /\ r.page = 1 /\ r.size \in 0..MaxSize}

\* Query(1, ge=1) and Query(10, ge=1, le=100)
ValidQuery(r) == r.page >= PageMin /\ r.size >= SizeMin /\ r.size <= SizeLimit

NoRequest ==
    [user |-> "u1", page |-> PageDefault, size |-> SizeDefault, difficulty |-> None,
     topic |-> None,
     source |-> None, q_type |-> None, status |-> {}]

Response(code, body) == [code |-> code, body |-> body]
NoBody == [detail |-> ""]

\* The messages a failing remote call may carry.
UpstreamErrors == {"connection reset", "statement timeout"}

\* A mutant of CatchAll: the failure is left to the global handler.
CatchAllUnhandled(e) == Response(500, [detail |-> "Internal server error"])

\* `except Exception as e: raise HTTPException(status_code=400, detail=str(e))`
CatchAll(e) == Response(400, [detail |-> e])

IdleListing ==
    [pc |-> "idle", req |-> NoRequest, query |-> TableSelect, total_count |-> 0,
     resp |-> Response(0, NoBody),
     cntCat |-> {}, pageCat |-> {}, cntProg |-> << >>, pageProg |-> << >>,
     calls |-> 0, raised |-> None]

\* No other request of the observed client is in flight.
NoReply == [kind |-> "none", id |-> "", role |-> "", msg |-> ""]
IdleOp ==
    [name |-> "none", pc |-> "idle", auth |-> NoReply, arg |-> << >>,
     resp |-> Response(0, NoBody), calls |-> 0, raised |-> None,
     query |-> << >>, total |-> 0, pending |-> << >>, imported |-> 0,
     before |-> << >>, tried |-> << >>]

\* What is remembered of a finished request when the same request is repeated.
\* Only a response served from an unchanged catalog is worth comparing with.
NoPrev == [resp |-> Response(0, NoBody), cat |-> {}]
Remembered(l) ==
    IF l.resp.code = 200 /\ l.cntCat = l.pageCat
    THEN [resp |-> l.resp, cat |-> l.pageCat] ELSE NoPrev

Repeat(r) == IF lst.pc = "done" /\ lst.req = r THEN Remembered(lst) ELSE NoPrev

\* A client sends a request when none is in flight; right after a response it
\* may send the same request again, and the earlier response is remembered.
Startable(requests) ==
    IF lst.pc = "idle" THEN requests
    ELSE IF lst.pc = "done" THEN {lst.req} \cap requests
    ELSE {}

\* Requests a client may send when it never repeats one.
Fresh(requests) == IF lst.pc = "idle" THEN requests ELSE {}

Init ==
    /\ catalog \in SUBSET QuestionBank
    /\ progress = << >>
    /\ lst = IdleListing
    /\ prev = NoPrev
    /\ op = IdleOp
    /\ now = 0
    /\ accounts = Users

\* ------------------------------------------------------- get_questions
\* FastAPI rejects page < 1, size < 1 and size > 100 before the handler runs.
ListRejected(r) ==
    /\ lst.pc \in {"idle", "done"}
    /\ ~ValidQuery(r)
    /\ lst' = [IdleListing EXCEPT !.pc = "done", !.req = r,
                                  !.resp = Response(422, NoBody)]
    /\ prev' = Repeat(r)
    /\ UNCHANGED <<catalog, progress, op, now, accounts>>

\* questions.py 29-54: build the request, run the count query.
ListCount(r) ==
    /\ lst.pc \in {"idle", "done"}
    /\ ValidQuery(r)
    /\ LET query == ApplyFilters(TableSelect, r.difficulty, r.topic, r.source, r.q_type)
       IN  lst' = [IdleListing EXCEPT !.pc = "counted", !.req = r, !.query = query,
                                      !.total_count = ExecuteCount(query, catalog),
                                      !.cntCat = catalog, !.cntProg = progress,
                                      !.calls = 1]
    /\ prev' = Repeat(r)
    /\ UNCHANGED <<catalog, progress, op, now, accounts>>

\* questions.py 53, 84-86: the count query raises; the catch-all answers 400.
ListCountFails(r) ==
    /\ lst.pc \in {"idle", "done"}
    /\ ValidQuery(r)
    /\ \E e \in UpstreamErrors :
         lst' = [IdleListing EXCEPT !.pc = "done", !.req = r, !.calls = 1,
                                   !.raised = Some(e), !.resp = CatchAll(e)]
    /\ prev' = Repeat(r)
    /\ UNCHANGED <<catalog, progress, op, now, accounts>>

\* A mutant of ListPage: the handler also records that the user saw the page.
ListPageTracksView ==
    /\ lst.pc = "counted"
    /\ LET r     == lst.req
           skip  == Skip(r.page, r.size)
           query == Order(Range(lst.query, skip, skip + r.size - 1), "ques_number")
       IN  \E data \in ExecuteData(query, catalog) :
             lst' = [lst EXCEPT !.pc = "done", !.query = query,
                       !.pageCat = catalog, !.pageProg = progress, !.calls = 2,
                       !.resp = Response(200,
                           PaginatedResponse(data, lst.total_count, r.page, r.size))]
    /\ progress' = Append(progress,
           [user_id |-> lst.req.user, question_id |-> 1, is_correct |-> FALSE,
            attempted_at |-> now])
    /\ UNCHANGED <<catalog, prev, op, now, accounts>>

\* questions.py 56-82: run the page query on the same builder, answer.
ListPage ==
    /\ lst.pc = "counted"
    /\ LET r     == lst.req
           skip  == Skip(r.page, r.size)
           query == Order(Range(lst.query, skip, skip + r.size - 1), "ques_number")
       IN  \E data \in ExecuteData(query, catalog) :
             lst' = [lst EXCEPT !.pc = "done", !.query = query,
                       !.pageCat = catalog, !.pageProg = progress, !.calls = 2,
                       !.resp = Response(200,
                           PaginatedResponse(data, lst.total_count, r.page, r.size))]
    /\ UNCHANGED <<catalog, progress, prev, op, now, accounts>>

\* questions.py 58, 84-86: the page query raises; the catch-all answers 400.
ListPageFails ==
    /\ lst.pc = "counted"
    /\ \E e \in UpstreamErrors :
         lst' = [lst EXCEPT !.pc = "done", !.pageCat = catalog, !.pageProg = progress,
                           !.calls = 2, !.raised = Some(e), !.resp = CatchAll(e)]
    /\ UNCHANGED <<catalog, progress, prev, op, now, accounts>>

\* The response has been delivered; nothing of the request is kept.
ListReturn ==
    /\ lst.pc = "done"
    /\ lst' = IdleListing
    /\ prev' = NoPrev
    /\ UNCHANGED <<catalog, progress, op, now, accounts>>

\* ------------------------------------------------------ record_attempt
\* progress.py 70-77: the row record_attempt prepares, stamped with the clock.
AttemptData(u, q, c) ==
    [user_id |-> u, question_id |-> q, is_correct |-> c, attempted_at |-> now]

\* progress.py 68-97: one row is inserted for the calling user.
RecordAttempt(u, q, c) ==
    /\ Len(progress) < MaxAttempts
    /\ progress' = Append(progress, AttemptData(u, q, c))
    /\ UNCHANGED <<catalog, lst, prev, op, now, accounts>>

\* ----------------------------------------------------- import_questions
\* questions.py 267-271: one batch insert of parsed rows.
ImportBatch(batch) ==
    /\ batch # {}
    /\ batch \cap catalog = {}
    /\ catalog' = catalog \cup batch
    /\ UNCHANGED <<progress, lst, prev, op, now, accounts>>

\* ------------------------------------------------------ specifications
AnyImport(bank) == \E batch \in SUBSET bank : ImportBatch(batch)

AnyAttempt ==
    \E a \in AttemptRows : RecordAttempt(a.user_id, a.question_id, a.is_correct)

\* The listing with every filter combination, against a catalog that grows.
Next ==
    \/ \E r \in Startable(PlainRequests) : ListRejected(r)
    \/ \E r \in Startable(PlainRequests) : ListCount(r)
    \/ \E r \in Startable(PlainRequests) : ListCountFails(r)
    \/ ListPage
    \/ ListPageFails
    \/ ListReturn
    \/ AnyImport(QuestionBank)

Spec == Init /\ [][Next]_vars

\* The listing interleaved with attempt recording and imports, over the
\* questions that get attempted and one that never is.
AttemptBank == {QuestionRow(n) : n \in AttemptedQuestions \cup {2}}

InitAttempts ==
    /\ catalog \in SUBSET AttemptBank
    /\ progress = << >>
    /\ lst = IdleListing
    /\ prev = NoPrev
    /\ op = IdleOp
    /\ now = 0
    /\ accounts = Users

NextAttempts ==
    \/ \E r \in Fresh(StatusRequests) : ListRejected(r)
    \/ \E r \in Fresh(StatusRequests) : ListCount(r)
    \/ \E r \in Fresh(StatusRequests) : ListCountFails(r)
    \/ ListPage
    \/ ListPageFails
    \/ ListReturn
    \/ AnyAttempt
    \/ AnyImport(AttemptBank)

SpecAttempts == InitAttempts /\ [][NextAttempts]_vars

\* =================================================================
\* The other operations of the routers
\* =================================================================
\* ---------------------------------------------------- identity provider
Roles == {"admin", "teacher", "student"}

\* What becomes of a request's credentials.  auth.py 9 and 12: HTTPBearer
\* turns away a request without an Authorization header or without a token
\* in it, and one of another scheme, before the provider is asked.  auth.py
\* 20: supabase.auth.get_user(token) may answer with a user, answer without
\* one, answer nothing, or raise.
IdpErrors == {"invalid JWT: token is expired"}
IdpReplies(users, roles) ==
    {[kind |-> "user", id |-> u, role |-> r, msg |-> ""] : u \in users, r \in roles}
        \cup {[kind |-> k, id |-> "", role |-> "", msg |-> ""] :
                 k \in {"no_response", "no_user", "no_credentials", "other_scheme"}}
        \cup {[kind |-> "raises", id |-> "", role |-> "", msg |-> e] : e \in IdpErrors}

\* auth.py 9 and 12: the answers of HTTPBearer
NotAuthenticated == Response(403, [detail |-> "Not authenticated"])
OtherScheme == Response(403, [detail |-> "Invalid authentication credentials"])

\* auth.py 22-26 and 30-34
Unauthorized == Response(401, [detail |-> "Invalid authentication credentials"])

\* A mutant of GetCurrentUser: the provider's error text is passed on.
GetCurrentUserLeaks(reply) ==
    IF reply.kind = "user" THEN Response(0, NoBody)
    ELSE IF reply.kind = "no_credentials" THEN NotAuthenticated
    ELSE IF reply.kind = "other_scheme" THEN OtherScheme
    ELSE IF reply.kind = "raises" THEN Response(401, [detail |-> reply.msg])
    ELSE Unauthorized

\* auth.py 9-34: the response that ends the request, code 0 when the user
\* is returned to the handler.
GetCurrentUser(reply) ==
    IF reply.kind = "user" THEN Response(0, NoBody)
    ELSE IF reply.kind = "no_credentials" THEN NotAuthenticated
    ELSE IF reply.kind = "other_scheme" THEN OtherScheme
    ELSE Unauthorized

\* The role check of app.core.auth.check_roles: 403 unless the user's role
\* is one of the allowed roles.
Forbidden == Response(403, [detail |-> "Insufficient permissions"])

\* A mutant of CheckRoles: every authenticated user passes, whatever the role.
CheckRolesAny(allowed, reply) == GetCurrentUser(reply)

CheckRoles(allowed, reply) ==
    LET authn == GetCurrentUser(reply)
    IN  IF authn.code # 0 THEN authn
        ELSE IF reply.role \in allowed THEN Response(0, NoBody) ELSE Forbidden

\* progress.py 64
AttemptRoles == {"student", "teacher"}

\* admin.py 101 and 153
AdminRoles == {"admin"}

\* The observed client sends a request when none of its requests is in flight.
ClientIdle == op.pc = "idle" /\ lst.pc = "idle"

\* A finished request: its name, who sent it, what it was about, the answer.
Finished(name, reply, arg, resp) ==
    [IdleOp EXCEPT !.name = name, !.pc = "done", !.auth = reply, !.arg = arg,
                   !.resp = resp]

\* A request whose one remote call raised e.
Failed(name, reply, arg, e) ==
    [Finished(name, reply, arg, CatchAll(e)) EXCEPT !.calls = 1, !.raised = Some(e)]

\* The response has been delivered.
OpReturn ==
    /\ op.pc = "done"
    /\ op' = IdleOp
    /\ UNCHANGED <<catalog, progress, lst, prev, now, accounts>>

\* ------------------------------------------------------ record_attempt
\* A mutant of Inserted: the row goes to the first user, whoever calls.
InsertedForFirstUser(u, q, c) == Append(progress, AttemptData("u1", q, c))

\* progress.py 80: the table after the insert
Inserted(u, q, c) == Append(progress, AttemptData(u, q, c))

\* progress.py 82-83 and 99-101: str() of HTTPException(status_code=400,
\* detail="Failed to record attempt"), raised when the insert hands back no row
NoRowText == "400: Failed to record attempt"

\* progress.py 61-101, with its dependencies.  The insert stores the row; the
\* store hands the row back, or hands back nothing and the answer is 400.
PostAttempt(reply, q, c) ==
    /\ ClientIdle
    /\ LET gate == CheckRoles(AttemptRoles, reply)
           arg  == <<q, c>>
       IN  IF gate.code # 0
           THEN /\ op' = Finished("record_attempt", reply, arg, gate)
                /\ UNCHANGED progress
           ELSE \/ /\ Len(progress) < MaxAttempts
                   /\ progress' = Inserted(reply.id, q, c)
                   /\ \/ op' = [Finished("record_attempt", reply, arg,
                                         Response(200, AttemptData(reply.id, q, c)))
                                  EXCEPT !.calls = 1]
                      \/ op' = [Finished("record_attempt", reply, arg,
                                         CatchAll(NoRowText))
                                  EXCEPT !.calls = 1]
                \/ /\ \E e \in UpstreamErrors :
                        op' = Failed("record_attempt", reply, arg, e)
                   /\ UNCHANGED progress
    /\ UNCHANGED <<catalog, lst, prev, now, accounts>>

\* --------------------------------------------------------- delete_user
RECURSIVE DeleteWhere(_, _)
\* .delete().eq("user_id", user_id): the rows of the other users stay
DeleteWhere(table, u) ==
    IF table = << >> THEN << >>
    ELSE (IF Head(table).user_id = u THEN << >> ELSE <<Head(table)>>)
             \o DeleteWhere(Tail(table), u)

\* admin.py 107: awaiting the result of the blocking client's execute()
AwaitError == "object APIResponse can't be used in 'await' expression"

\* admin.py 98-115, with its dependencies.  The rows are deleted by
\* execute(); the await of its result then raises, and the catch-all answers:
\* auth.admin.delete_user of line 110 is not reached and accounts stays.
DeleteUser(reply, target) ==
    /\ ClientIdle
    /\ LET gate == CheckRoles(AdminRoles, reply)
       IN  IF gate.code # 0
           THEN /\ op' = Finished("delete_user", reply, target, gate)
                /\ UNCHANGED progress
           ELSE \/ /\ progress' = DeleteWhere(progress, target)
                   /\ op' = [Finished("delete_user", reply, target, CatchAll(AwaitError))
                               EXCEPT !.calls = 1]
                \/ /\ \E e \in UpstreamErrors :
                        op' = Failed("delete_user", reply, target, e)
                   /\ UNCHANGED progress
    /\ UNCHANGED <<catalog, lst, prev, now, accounts>>

\* ------------------------------------------------------ get_user_stats
TimeRanges == {"today", "week", "month", "all"}

\* datetime.date(): the calendar day a clock reading falls on
Date(t) == t \div TicksPerDay

\* start_date.isoformat() as a timestamp: midnight of that day
StartOfDay(d) == d * TicksPerDay

\* progress.py 164-169
StartDate(time_range) ==
    IF time_range = "today" THEN Date(now)
    ELSE IF time_range = "week" THEN Date(now) - WeekDays
    ELSE Date(now) - MonthDays

\* supabase.table("user_progress").select(...).eq("user_id", u)
ProgressSelect(u) == [user |-> u, since |-> None, correct |-> None]

\* progress.py 156-171
StatsQuery(u, time_range) ==
    IF time_range # "all"
    THEN [ProgressSelect(u) EXCEPT !.since = Some(StartOfDay(StartDate(time_range)))]
    ELSE ProgressSelect(u)

\* The positions of the rows of user_progress a request selects.
SelectedAttempts(q, table) ==
    {k \in 1..Len(table) :
        /\ table[k].user_id = q.user
        /\ (q.since # None => table[k].attempted_at >= q.since[1])
        /\ (q.correct # None => table[k].is_correct = q.correct[1])}

CountAttempts(q, table) == Cardinality(SelectedAttempts(q, table))

\* progress.py 179: correct.count / total.count * 100, kept as a fraction
Accuracy(correct, total) ==
    IF total # 0 THEN [num |-> correct * 100, den |-> total]
    ELSE [num |-> 0, den |-> 1]

\* progress.py 150-173: dependencies, the request, the total query
StatsTotal(reply, time_range) ==
    /\ ClientIdle
    /\ LET authn == GetCurrentUser(reply)
           query == StatsQuery(reply.id, time_range)
       IN  IF authn.code # 0
           THEN op' = Finished("get_user_stats", reply, time_range, authn)
           ELSE \/ op' = [IdleOp EXCEPT !.name = "get_user_stats", !.pc = "total",
                              !.auth = reply, !.arg = time_range, !.query = query,
                              !.total = CountAttempts(query, progress),
                              !.calls = 1, !.before = progress]
                \/ \E e \in UpstreamErrors :
                     op' = Failed("get_user_stats", reply, time_range, e)
    /\ UNCHANGED <<catalog, progress, lst, prev, now, accounts>>

\* progress.py 174-182: the correct query on the same builder, the answer
StatsCorrect ==
    /\ op.pc = "total"
    /\ LET query   == [op.query EXCEPT !.correct = Some(TRUE)]
           correct == CountAttempts(query, progress)
       IN  \/ op' = [op EXCEPT !.pc = "done", !.query = query, !.calls = 2,
                       !.resp = Response(200,
                           [total_attempts  |-> op.total,
                            correct_answers |-> correct,
                            accuracy        |-> Accuracy(correct, op.total)])]
           \/ \E e \in UpstreamErrors :
                op' = [op EXCEPT !.pc = "done", !.query = query, !.calls = 2,
                                 !.raised = Some(e), !.resp = CatchAll(e)]
    /\ UNCHANGED <<catalog, progress, lst, prev, now, accounts>>

\* ---------------------------------------------------- get_daily_streak
RECURSIVE SortedDates(_)
\* sorted(set(...)): the days in ascending order, each once
SortedDates(S) ==
    IF S = {} THEN << >>
    ELSE LET d == CHOOSE x \in S : \A y \in S : x <= y
         IN  <<d>> \o SortedDates(S \ {d})

Max(a, b) == IF a >= b THEN a ELSE b

RECURSIVE StreakLoop(_, _, _, _, _)
\* progress.py 299-304: `for i in range(len(dates) - 1, 0, -1)`, with i
\* counted from 1 here; current_date is never moved back.
StreakLoop(dates, i, current_date, current_streak, longest_streak) ==
    IF i < 2
    THEN [current_streak |-> current_streak, longest_streak |-> longest_streak]
    ELSE IF dates[i] = current_date - 1
         THEN StreakLoop(dates, i - 1, current_date, current_streak + 1,
                         Max(longest_streak, current_streak + 1))
         ELSE [current_streak |-> current_streak, longest_streak |-> longest_streak]

\* progress.py 293: .date() of a value the store returned as text
NoDateError == "'str' object has no attribute 'date'"

\* progress.py 274-308, with its dependency.  The store answers with
\* attempted_at as ISO text; a client that parses timestamps hands datetimes.
GetDailyStreak(reply, parsed) ==
    /\ ClientIdle
    /\ LET authn == GetCurrentUser(reply)
           rows  == SelectedAttempts(ProgressSelect(reply.id), progress)
           dates == SortedDates({Date(progress[k].attempted_at) : k \in rows})
           ok(body) == [Finished("get_daily_streak", reply, parsed, Response(200, body))
                           EXCEPT !.calls = 1, !.before = progress]
       IN  IF authn.code # 0
           THEN op' = Finished("get_daily_streak", reply, parsed, authn)
           ELSE \/ IF rows = {}
                   THEN op' = ok([current_streak |-> 0, longest_streak |-> 0])
                   ELSE IF ~parsed
                   THEN op' = [Finished("get_daily_streak", reply, parsed,
                                        CatchAll(NoDateError)) EXCEPT !.calls = 1]
                   ELSE op' = ok(StreakLoop(dates, Len(dates), Date(now), 1, 1))
                \/ \E e \in UpstreamErrors :
                     op' = Failed("get_daily_streak", reply, parsed, e)
    /\ UNCHANGED <<catalog, progress, lst, prev, now, accounts>>

\* The clock advances.
Tick ==
    /\ now < MaxNow
    /\ now' = now + 1
    /\ UNCHANGED <<catalog, progress, lst, prev, op, accounts>>

\* -------------------------------------------------------- get_question
\* str() of HTTPException(status_code=404, detail="Question not found")
NotFoundText == "404: Question not found"

\* questions.py 200-216, with its dependency
GetQuestion(reply, ques_number) ==
    /\ ClientIdle
    /\ LET authn == GetCurrentUser(reply)
           query == Eq(TableSelect, "ques_number", ques_number)
           done(resp) == [Finished("get_question", reply, ques_number, resp)
                             EXCEPT !.calls = 1]
       IN  IF authn.code # 0
           THEN op' = Finished("get_question", reply, ques_number, authn)
           ELSE \/ \E data \in ExecuteData(query, catalog) :
                     IF data = << >>
                     THEN op' = done(CatchAll(NotFoundText))
                     ELSE op' = done(Response(200, data[1]))
                \/ \E e \in UpstreamErrors :
                     op' = Failed("get_question", reply, ques_number, e)
    /\ UNCHANGED <<catalog, progress, lst, prev, now, accounts>>

\* ------------------------------------------------------- uploaded files
\* The sheets a client uploads: rows of the bank in any order, none twice.
FileRows ==
    {rs \in UNION {[1..n -> AttemptBank] : n \in 0..Cardinality(AttemptBank)} :
        \A i, j \in 1..Len(rs) : rs[i] = rs[j] => i = j}

\* questions.py 312-320
RequiredColumns ==
    <<"Serial No", "QUESTION", "Options", "Correct option", "TAG", "Difiiculty tag",
      "Source">>

AllColumns == {RequiredColumns[i] : i \in 1..Len(RequiredColumns)}

\* The columns the uploaded sheets carry: all, or all but some.
ColumnInputs == {AllColumns, AllColumns \ {"Source"}, AllColumns \ {"Serial No", "TAG"}}

\* questions.py 323: the required columns the sheet lacks, in required order
MissingColumns(file) == SelectSeq(RequiredColumns, LAMBDA col : col \notin file.columns)

RECURSIVE Join(_)
\* ', '.join(names)
Join(names) ==
    IF Len(names) = 1 THEN names[1] ELSE names[1] \o ", " \o Join(Tail(names))

\* questions.py 327
MissingText(missing) == "Missing required columns: " \o Join(missing)

\* str() of what pd.read_excel raises on content that is not a workbook
ReadError == "Excel file format cannot be determined, you must specify an engine manually."

\* The uploads over a set of sheets: a name that does not end in .xls/.xlsx,
\* content that is not a workbook, and workbooks with their columns and rows.
Uploads(sheets) ==
    {[excel |-> FALSE, readable |-> TRUE, columns |-> AllColumns, rows |-> << >>],
     [excel |-> TRUE, readable |-> FALSE, columns |-> {}, rows |-> << >>]}
        \cup {[excel |-> TRUE, readable |-> TRUE, columns |-> cs, rows |-> rs] :
                  cs \in ColumnInputs, rs \in sheets}

Files == Uploads(FileRows)

\* questions.py 226-231 and 304-307
InvalidFormat ==
    Response(400, [detail |-> "Invalid file format. Please upload an Excel file"])

\* A mutant of ValidateExcel: the rows of a valid sheet are stored as well.
ValidateExcelStores(reply, file) ==
    /\ ClientIdle
    /\ GetCurrentUser(reply).code = 0 /\ file.excel /\ file.readable
    /\ MissingColumns(file) = << >>
    /\ op' = Finished("validate_excel", reply, file,
                      Response(200, [valid |-> TRUE, total_rows |-> Len(file.rows),
                                     sample |-> IF file.rows = << >> THEN None
                                                ELSE Some(file.rows[1])]))
    /\ catalog' = catalog \cup {file.rows[i] : i \in 1..Len(file.rows)}
    /\ UNCHANGED <<progress, lst, prev, now, accounts>>

\* questions.py 295-337, with its dependency: the sheet is read, never stored
ValidateExcel(reply, file) ==
    /\ ClientIdle
    /\ LET authn == GetCurrentUser(reply)
           resp  == IF authn.code # 0 THEN authn
                    ELSE IF ~file.excel THEN InvalidFormat
                    ELSE IF ~file.readable
                    THEN Response(200, [valid |-> FALSE, error |-> ReadError])
                    ELSE IF MissingColumns(file) # << >>
                    THEN Response(200, [valid |-> FALSE,
                                        error |-> MissingText(MissingColumns(file))])
                    ELSE Response(200, [valid |-> TRUE, total_rows |-> Len(file.rows),
                                        sample |-> IF file.rows = << >> THEN None
                                                   ELSE Some(file.rows[1])])
       IN  op' = Finished("validate_excel", reply, file, resp)
    /\ UNCHANGED <<catalog, progress, lst, prev, now, accounts>>

\* --------------------------------- import_questions, bulk_upload_questions
\* A sheet row whose "Serial No" is not a number: int() raises on it.
BadRow == [serial |-> "n/a"]

\* questions.py 238-260 and admin.py 162-178: whether row i of the sheet
\* fails conversion; without the required columns every row does.
RowFails(file, i) == MissingColumns(file) # << >> \/ file.rows[i] = BadRow

\* questions.py 238-260: a row that cannot be converted is skipped; without
\* the required columns no row converts.
Converted(file) ==
    IF MissingColumns(file) = << >>
    THEN SelectSeq(file.rows, LAMBDA row : row # BadRow) ELSE << >>

\* admin.py 177-178: "Row {index + 2}" for each failing row in sheet order,
\* index counted from 0
RowErrors(file) ==
    SelectSeq([i \in 1..Len(file.rows) |-> i + 1], LAMBDA n : RowFails(file, n - 1))

RECURSIVE Batches(_)
\* A mutant of Batches: every row goes into one batch.
BatchesWhole(questions) == IF questions = << >> THEN << >> ELSE <<questions>>

\* questions.py 267-268 and admin.py 188-190: slices of batch_size rows
Batches(questions) ==
    IF questions = << >> THEN << >>
    ELSE LET n == IF Len(questions) < BatchSize THEN Len(questions) ELSE BatchSize
         IN  <<SubSeq(questions, 1, n)>> \o Batches(SubSeq(questions, n + 1, Len(questions)))

\* The loop over the batches is entered.
Importing(name, reply, file, questions) ==
    [IdleOp EXCEPT !.name = name, !.pc = "importing", !.auth = reply, !.arg = file,
                   !.pending = Batches(questions), !.total = Len(questions)]

\* questions.py 219-262, with its dependency
ImportStart(reply, file) ==
    /\ ClientIdle
    /\ LET authn == GetCurrentUser(reply)
       IN  IF authn.code # 0
           THEN op' = Finished("import_questions", reply, file, authn)
           ELSE IF ~file.excel
           THEN op' = Finished("import_questions", reply, file, InvalidFormat)
           ELSE IF ~file.readable
           THEN op' = Finished("import_questions", reply, file, CatchAll(ReadError))
           ELSE op' = Importing("import_questions", reply, file, Converted(file))
    /\ UNCHANGED <<catalog, progress, lst, prev, now, accounts>>

\* A mutant of BulkUploadStart: the rows that validated are inserted whatever
\* the other rows did.
BulkUploadInsertsValid(reply, file) ==
    /\ ClientIdle
    /\ CheckRoles(AdminRoles, reply).code = 0
    /\ op' = Importing("bulk_upload_questions", reply, file, Converted(file))
    /\ UNCHANGED <<catalog, progress, lst, prev, now, accounts>>

\* admin.py 150-185, with its dependencies: any row in error stops the upload
BulkUploadStart(reply, file) ==
    /\ ClientIdle
    /\ LET gate == CheckRoles(AdminRoles, reply)
           errors == RowErrors(file)
           valid_records == Converted(file)
       IN  IF gate.code # 0
           THEN op' = Finished("bulk_upload_questions", reply, file, gate)
           ELSE IF ~file.readable
           THEN op' = Finished("bulk_upload_questions", reply, file, CatchAll(ReadError))
           ELSE IF errors # << >>
           THEN op' = Finished("bulk_upload_questions", reply, file,
                               Response(200,
                                   [status |-> IF valid_records # << >>
                                               THEN "partial_success" ELSE "failed",
                                    errors |-> errors,
                                    valid_count |-> Len(valid_records)]))
           ELSE op' = Importing("bulk_upload_questions", reply, file, valid_records)
    /\ UNCHANGED <<catalog, progress, lst, prev, now, accounts>>

\* The identifiers of a batch that table TMUA already holds.
Clashes(batch, table) ==
    {i \in 1..Len(batch) : \E row \in table : row.ques_number = batch[i].ques_number}

\* questions.py 269-279 and admin.py 191: one batch is inserted.  The store
\* hands back the rows it inserted or, as record_attempt allows for, none of
\* them; import_questions counts the rows handed back (len(response.data),
\* line 271).  When the insert raises, import_questions goes on to the next
\* batch and bulk_upload_questions answers through its catch-all.
InsertBatch ==
    /\ op.pc = "importing" /\ op.pending # << >>
    /\ LET batch == Head(op.pending)
       IN  \/ /\ Clashes(batch, catalog) = {}
              /\ catalog' = catalog \cup {batch[i] : i \in 1..Len(batch)}
              /\ \E returned \in {Len(batch), 0} :
                   op' = [op EXCEPT !.pending = Tail(@), !.calls = @ + 1,
                                    !.imported = @ + returned,
                                    !.tried = Append(@, [rows |-> batch, ok |-> TRUE,
                                                         returned |-> returned])]
           \/ /\ \E e \in UpstreamErrors :
                   IF op.name = "import_questions"
                   THEN op' = [op EXCEPT !.pending = Tail(@), !.calls = @ + 1,
                                         !.raised = Some(e),
                                         !.tried = Append(@, [rows |-> batch, ok |-> FALSE,
                                                              returned |-> 0])]
                   ELSE op' = [op EXCEPT !.pc = "done", !.calls = @ + 1,
                                         !.raised = Some(e), !.resp = CatchAll(e),
                                         !.tried = Append(@, [rows |-> batch, ok |-> FALSE,
                                                              returned |-> 0])]
              /\ UNCHANGED catalog
    /\ UNCHANGED <<progress, lst, prev, now, accounts>>

\* questions.py 281-288 and admin.py 193-196: every batch has been tried; the
\* message of bulk_upload_questions is kept as the count its text carries
ImportFinish ==
    /\ op.pc = "importing" /\ op.pending = << >>
    /\ op' = [op EXCEPT !.pc = "done",
                !.resp = IF op.name = "import_questions"
                         THEN Response(200, [total_processed    |-> op.total,
                                             successful_imports |-> op.imported])
                         ELSE Response(200, [status |-> "success", message |-> op.total])]
    /\ UNCHANGED <<catalog, progress, lst, prev, now, accounts>>

\* -------------------------------------------------- get_topic_progress
\* The orders in which a store may hand back the rows of a sequence.
Orderings(rows) ==
    {[i \in 1..Len(rows) |-> rows[f[i]]] :
        f \in {g \in [1..Len(rows) -> 1..Len(rows)] :
                  \A i, j \in 1..Len(rows) : g[i] = g[j] => i = j}}

\* progress.py 193-198: the caller's rows of user_progress; the select asks
\* for no order, so the rows come in any order
UserAttempts(u, table) == Orderings(SelectSeq(table, LAMBDA a : a.user_id = u))

\* progress.py 202 and 207: question_topics.get(question_id), None for an
\* identifier the catalog does not hold
TopicOf(table, q) ==
    IF \E row \in table : row.ques_number = q
    THEN Some((CHOOSE row \in table : row.ques_number = q).topic)
    ELSE None

\* A mutant of Bump: every attempt counts as a correct one.
BumpAllCorrect(stats, topic, is_correct) ==
    IF \E i \in 1..Len(stats) : stats[i].topic = topic
    THEN [i \in 1..Len(stats) |->
            IF stats[i].topic = topic
            THEN [stats[i] EXCEPT !.total_attempts = @ + 1, !.correct_attempts = @ + 1]
            ELSE stats[i]]
    ELSE Append(stats, [topic |-> topic, total_attempts |-> 1, correct_attempts |-> 1])

\* progress.py 209-219: the topic's counters, created on its first attempt
Bump(stats, topic, is_correct) ==
    LET correct == IF is_correct THEN 1 ELSE 0
    IN  IF \E i \in 1..Len(stats) : stats[i].topic = topic
        THEN [i \in 1..Len(stats) |->
                IF stats[i].topic = topic
                THEN [stats[i] EXCEPT !.total_attempts = @ + 1,
                                      !.correct_attempts = @ + correct]
                ELSE stats[i]]
        ELSE Append(stats, [topic |-> topic, total_attempts |-> 1,
                            correct_attempts |-> correct])

RECURSIVE TopicStats(_, _, _)
\* progress.py 205-220: the loop over the attempts; `if topic:` passes over
\* an attempt whose question has no topic in the mapping
TopicStats(attempts, table, stats) ==
    IF attempts = << >> THEN stats
    ELSE LET topic == TopicOf(table, Head(attempts).question_id)
         IN  IF Truthy(topic)
             THEN TopicStats(Tail(attempts), table,
                             Bump(stats, topic[1], Head(attempts).is_correct))
             ELSE TopicStats(Tail(attempts), table, stats)

\* A floating-point number (binary64) is modelled by its significant bits m,
\* the first of them a 1, and the power of two e that first bit stands for;
\* zero has no bits.
RECURSIVE Magnitude(_)
\* The number a sequence of bits stands for.
Magnitude(bits) ==
    IF bits = << >> THEN 0
    ELSE 2 * Magnitude(SubSeq(bits, 1, Len(bits) - 1)) + bits[Len(bits)]

RECURSIVE Binary(_)
\* The bits of a number, none for zero.
Binary(n) == IF n = 0 THEN << >> ELSE Append(Binary(n \div 2), n % 2)

RECURSIVE Increment(_)
\* The bits of the next number; one bit longer when every bit was a 1.
Increment(bits) ==
    IF bits = << >> THEN <<1>>
    ELSE IF bits[Len(bits)] = 0 THEN [bits EXCEPT ![Len(bits)] = 1]
    ELSE Append(Increment(SubSeq(bits, 1, Len(bits) - 1)), 0)

\* Rounding to the nearest, a tie to the even: whether the first `keep` bits
\* go up for the bits after them.
RoundsUp(bits, keep) ==
    /\ keep < Len(bits)
    /\ bits[keep + 1] = 1
    /\ \/ \E i \in (keep + 2)..Len(bits) : bits[i] = 1
       \/ keep >= 1 /\ bits[keep] = 1

\* The number of exponent e whose bits are rounded to the 53 a float keeps.
Nearest(bits, e) ==
    IF Len(bits) <= 53 THEN [m |-> bits \o [i \in 1..(53 - Len(bits)) |-> 0], e |-> e]
    ELSE LET kept == IF RoundsUp(bits, 53) THEN Increment(SubSeq(bits, 1, 53))
                     ELSE SubSeq(bits, 1, 53)
         IN  IF Len(kept) > 53 THEN [m |-> SubSeq(kept, 1, 53), e |-> e + 1]
             ELSE [m |-> kept, e |-> e]

RECURSIVE LeadingExponent(_, _, _)
\* The power of two of the first 1 bit of rest / total, rest being the
\* dividend times two to the power -e.
LeadingExponent(rest, total, e) ==
    IF rest >= total THEN e ELSE LeadingExponent(2 * rest, total, e - 1)

RECURSIVE Scaled(_, _)
\* The dividend doubled until the divisor goes into it.
Scaled(rest, total) == IF rest >= total THEN rest ELSE Scaled(2 * rest, total)

RECURSIVE QuotientBits(_, _, _)
\* Long division: the next n bits of rest / total, and after them a 1 if
\* anything is left over (rest stays below twice the divisor).
QuotientBits(rest, total, n) ==
    IF n = 0 THEN (IF rest > 0 THEN <<1>> ELSE << >>)
    ELSE LET bit == IF rest >= total THEN 1 ELSE 0
         IN  <<bit>> \o QuotientBits(2 * (rest - bit * total), total, n - 1)

\* progress.py 226: correct / total for whole numbers 0 <= correct <= total,
\* 0 < total, the quotient rounded to the nearest float (55 bits and a mark
\* of what is left decide the rounding of the first 53).
TrueDivide(correct, total) ==
    IF correct = 0 THEN [m |-> << >>, e |-> 0]
    ELSE Nearest(QuotientBits(Scaled(correct, total), total, 55),
                 LeadingExponent(correct, total, 0))

RECURSIVE TimesBits(_, _, _)
\* The bits of factor times the number of the bits, plus carry: the product
\* is worked out 18 bits at a time from the last bits on, as whole numbers.
TimesBits(bits, factor, carry) ==
    IF Len(bits) <= 18 THEN Binary(factor * Magnitude(bits) + carry)
    ELSE LET v == factor * Magnitude(SubSeq(bits, Len(bits) - 17, Len(bits))) + carry
         IN  TimesBits(SubSeq(bits, 1, Len(bits) - 18), factor, v \div 2 ^ 18)
                 \o [i \in 1..18 |-> ((v % 2 ^ 18) \div 2 ^ (18 - i)) % 2]

\* progress.py 226: x * 100, the product rounded to the nearest float.
Times100(x) ==
    IF x.m = << >> THEN x
    ELSE LET product == TimesBits(x.m, 100, 0)
         IN  Nearest(product, x.e + Len(product) - Len(x.m))

\* progress.py 241: round(x, 2) for 0 <= x <= 100, as the number of
\* hundredths over 100: the decimal of two places nearest to the float's
\* own value, a tie going to the even one.
Round2(x) ==
    IF x.m = << >> THEN [num |-> 0, den |-> 100]
    ELSE LET product == TimesBits(x.m, 100, 0)
             whole   == x.e + Len(product) - Len(x.m) + 1
             padded  == IF whole >= 0 THEN product
                        ELSE [i \in 1..(0 - whole) |-> 0] \o product
             keep    == IF whole >= 0 THEN whole ELSE 0
             low     == Magnitude(SubSeq(padded, 1, keep))
         IN  [num |-> IF RoundsUp(padded, keep) THEN low + 1 ELSE low, den |-> 100]

\* progress.py 225-229 and 241: the accuracy of a topic, rounded.
TopicAccuracy(correct, total) ==
    IF total > 0 THEN Round2(Times100(TrueDivide(correct, total)))
    ELSE [num |-> 0, den |-> 100]

\* progress.py 222-246: one TopicProgress per topic (the times taken are not
\* part of the model's attempts)
TopicProgressList(stats) ==
    [i \in 1..Len(stats) |->
        [topic            |-> stats[i].topic,
         total_attempts   |-> stats[i].total_attempts,
         correct_attempts |-> stats[i].correct_attempts,
         accuracy         |-> TopicAccuracy(stats[i].correct_attempts,
                                            stats[i].total_attempts)]]

\* progress.py 185-198: dependency, the query for the caller's attempts
TopicAttempts(reply) ==
    /\ ClientIdle
    /\ LET authn == GetCurrentUser(reply)
       IN  IF authn.code # 0
           THEN op' = Finished("get_topic_progress", reply, << >>, authn)
           ELSE \/ \E rows \in UserAttempts(reply.id, progress) :
                     op' = [IdleOp EXCEPT !.name = "get_topic_progress",
                              !.pc = "attempts", !.auth = reply, !.calls = 1,
                              !.before = rows]
                \/ \E e \in UpstreamErrors :
                     op' = Failed("get_topic_progress", reply, << >>, e)
    /\ UNCHANGED <<catalog, progress, lst, prev, now, accounts>>

\* progress.py 200-250: the query for the topics of the catalog, the answer
TopicQuestions ==
    /\ op.pc = "attempts"
    /\ \/ op' = [op EXCEPT !.pc = "done", !.calls = 2,
                   !.resp = Response(200,
                               TopicProgressList(TopicStats(op.before, catalog, << >>)))]
       \/ \E e \in UpstreamErrors :
            op' = [op EXCEPT !.pc = "done", !.calls = 2,
                             !.raised = Some(e), !.resp = CatchAll(e)]
    /\ UNCHANGED <<catalog, progress, lst, prev, now, accounts>>

\* ------------------------------------------------------ route dispatch
\* A path is handled as the text that follows /api/v1/questions/, a text
\* being the sequence of the code points of its characters.
FiltersPath     == <<102, 105, 108, 116, 101, 114, 115>>                 \* filters
SearchPath      == <<115, 101, 97, 114, 99, 104>>                        \* search
StatsPath       == <<115, 116, 97, 116, 115>>                            \* stats
ImportPath      == <<105, 109, 112, 111, 114, 116>>                      \* import
ValidatePath    == <<118, 97, 108, 105, 100, 97, 116, 101, 45,
                     101, 120, 99, 101, 108>>                            \* validate-excel
RandomPath      == <<114, 97, 110, 100, 111, 109>>                       \* random
PracticeSetPath == <<112, 114, 97, 99, 116, 105, 99, 101, 45,
                     115, 101, 116>>                                     \* practice-set
TopicsPath      == <<116, 111, 112, 105, 99, 115>>                       \* topics
SourcesPath     == <<115, 111, 117, 114, 99, 101, 115>>                  \* sources

\* questions.py 18-414: the routes of the questions router in the order of
\* their declaration, each a method, one path segment under the prefix
\* /questions (a literal or a parameter) and its endpoint.
Literal(method, text, endpoint) ==
    [method |-> method, param |-> FALSE, path |-> text, endpoint |-> endpoint]
Parameter(method, name, endpoint) ==
    [method |-> method, param |-> TRUE, path |-> name, endpoint |-> endpoint]

\* questions.py 18, 89, 123, 165, 200, 219, 295, 340, 379, 404, 414
Routes ==
    << Literal("GET", << >>, "get_questions"),
       Literal("GET", FiltersPath, "get_filter_options"),
       Literal("GET", SearchPath, "search_questions"),
       Literal("GET", StatsPath, "get_questions_stats"),
       Parameter("GET", "ques_number", "get_question"),
       Literal("POST", ImportPath, "import_questions"),
       Literal("POST", ValidatePath, "validate_excel"),
       Literal("GET", RandomPath, "get_random_question"),
       Literal("GET", PracticeSetPath, "generate_practice_set"),
       Literal("GET", TopicsPath, "get_topics"),
       Literal("GET", SourcesPath, "get_sources") >>

\* The text holds the character.
Holds(text, c) == \E i \in 1..Len(text) : text[i] = c

\* How a route matches a request: a literal matches its own text, a
\* parameter any non-empty text without a slash (47); the method decides
\* full or partial.
Match(route, method, segment) ==
    IF (IF route.param THEN segment # << >> /\ ~Holds(segment, 47)
        ELSE segment = route.path)
    THEN (IF route.method = method THEN "full" ELSE "partial")
    ELSE "none"

\* First-match dispatch: the first route that matches in full serves the
\* request; without one, a route that matched the path alone answers 405,
\* and without that nothing answers (404).
Dispatch(method, segment) ==
    LET full    == {i \in 1..Len(Routes) : Match(Routes[i], method, segment) = "full"}
        partial == {i \in 1..Len(Routes) : Match(Routes[i], method, segment) = "partial"}
    IN  IF full # {}
        THEN Routes[CHOOSE i \in full : \A j \in full : i <= j].endpoint
        ELSE IF partial # {} THEN "method_not_allowed" ELSE "not_found"

\* main.py 73: the mount takes a path under /api/v1/ whose rest is one line:
\* a line feed (10) may only be the last character of the path.
MountMatches(segment) ==
    \A i \in 1..(Len(segment) - 1) : segment[i] # 10

RECURSIVE StripSlashes(_)
\* The path without the slashes at its end.
StripSlashes(segment) ==
    IF segment # << >> /\ segment[Len(segment)] = 47
    THEN StripSlashes(SubSeq(segment, 1, Len(segment) - 1))
    ELSE segment

\* main.py 73 and 86-88: who answers a request for /api/v1/questions/<segment>.
\* A path the mount does not take is answered by the application: 404, or a
\* redirect when the path ends in slashes and the mount takes it without
\* them.  Of the paths the mount takes, one ending in a line feed matches no
\* route of the mounted application; any other is dispatched over the routes,
\* and when no route matches it is redirected if it ends in slashes and a
\* route matches it without them.
Resolve(method, segment) ==
    LET stripped == StripSlashes(segment)
        slashed  == stripped # segment
    IN  IF ~MountMatches(segment)
        THEN IF slashed /\ MountMatches(stripped) THEN "redirect_slashes" ELSE "not_found"
        ELSE IF Holds(segment, 10) THEN "not_found"
        ELSE IF Dispatch(method, segment) # "not_found" THEN Dispatch(method, segment)
        ELSE IF slashed /\ stripped # << >> /\ ~Holds(stripped, 47)
        THEN "redirect_slashes"
        ELSE "not_found"

\* The decimal digits 0 to 9 are the code points 48 to 57.
IsDigit(c) == c \in 48..57
DigitValue(c) == c - 48

\* The white space the conversion drops around the text: the characters of
\* the Unicode property White_Space.
WhiteSpace ==
    (9..13) \cup {32, 133, 160, 5760} \cup (8192..8202)
            \cup {8232, 8233, 8239, 8287, 12288}

RECURSIVE Trim(_)
\* The text without the white space around it.
Trim(s) ==
    IF s = << >> THEN s
    ELSE IF Head(s) \in WhiteSpace THEN Trim(Tail(s))
    ELSE IF s[Len(s)] \in WhiteSpace THEN Trim(SubSeq(s, 1, Len(s) - 1))
    ELSE s

RECURSIVE DecimalValue(_)
\* The number a sequence of digits stands for.
DecimalValue(digits) ==
    IF digits = << >> THEN 0
    ELSE 10 * DecimalValue(SubSeq(digits, 1, Len(digits) - 1))
             + DigitValue(digits[Len(digits)])

\* The number of a text made of an optional minus sign (45) and then either
\* the digit 0 alone or a digit 1-9 and any digits after it; None for any
\* other text.
ParseInt(text) ==
    LET negative == text # << >> /\ text[1] = 45
        digits   == IF negative THEN Tail(text) ELSE text
    IN  IF \/ digits = << >>
           \/ \E i \in 1..Len(digits) : ~IsDigit(digits[i])
           \/ Len(digits) > 1 /\ digits[1] = 48
        THEN None
        ELSE IF negative THEN Some(0 - DecimalValue(digits))
        ELSE Some(DecimalValue(digits))

\* The text from its first character that is neither a leading zero (48) nor
\* an underscore (95) among them: the whole text when it starts with a digit
\* 1-9 or a minus sign; after leading zeros the rest from a digit 1-9 or a
\* minus sign, or from the character before a point (46); the last character
\* when zeros and underscores are all there is.  None for any other text.
StripLeadingZeros(text) ==
    IF text = << >> THEN None
    ELSE IF text[1] # 48
    THEN IF IsDigit(text[1]) \/ text[1] = 45 THEN Some(text) ELSE None
    ELSE LET stops == {i \in 2..Len(text) : text[i] \notin {48, 95}}
             first == CHOOSE i \in stops : \A j \in stops : i <= j
         IN  IF stops = {} THEN Some(SubSeq(text, Len(text), Len(text)))
             ELSE IF IsDigit(text[first]) \/ text[first] = 45
             THEN Some(SubSeq(text, first, Len(text)))
             ELSE IF text[first] = 46
             THEN Some(SubSeq(text, first - 1, Len(text)))
             ELSE None

\* The text without its first point and the zeros after it, when zeros (one
\* or more) are all that follows the point.
StripDecimalZeros(text) ==
    LET points   == {i \in 1..Len(text) : text[i] = 46}
        point    == CHOOSE i \in points : \A j \in points : i <= j
        decimals == SubSeq(text, point + 1, Len(text))
    IN  IF points = {} THEN text
        ELSE IF decimals # << >> /\ \A i \in 1..Len(decimals) : decimals[i] = 48
        THEN SubSeq(text, 1, point - 1)
        ELSE text

\* The text without its underscores, when it has some, none of them first,
\* last or next to another.
StripUnderscores(text) ==
    IF \/ text = << >>
       \/ text[1] = 95 \/ text[Len(text)] = 95
       \/ \A i \in 1..Len(text) : text[i] # 95
       \/ \E i \in 1..(Len(text) - 1) : text[i] = 95 /\ text[i + 1] = 95
    THEN text
    ELSE SelectSeq(text, LAMBDA c : c # 95)

\* questions.py 202: `ques_number: int`, the conversion of the segment's
\* text (texts of at most 4300 characters).  The white space around the text
\* is dropped.  A plus sign (43) in front is dropped unless a minus sign
\* follows it; a minus sign in front is set aside unless a sign follows it.
\* From the rest, leading zeros, a point followed by zeros only and single
\* underscores inside are taken away; what is left, behind the minus sign
\* set aside, has to be an integer written without leading zeros.  None for
\* any other text.
IntOf(segment) ==
    LET text      == Trim(segment)
        plus      == text # << >> /\ text[1] = 43
        afterPlus == IF plus THEN Tail(text) ELSE text
        minus     == afterPlus # << >> /\ afterPlus[1] = 45
        unsigned  == IF minus THEN Tail(afterPlus) ELSE afterPlus
        twoSigns  == \/ plus /\ minus
                     \/ minus /\ unsigned # << >> /\ unsigned[1] \in {43, 45}
        rest      == StripLeadingZeros(unsigned)
    IN  IF twoSigns \/ rest = None THEN None
        ELSE LET cleaned == StripUnderscores(StripDecimalZeros(rest[1]))
             IN  ParseInt(IF minus THEN <<45>> \o cleaned ELSE cleaned)

\* questions.py 202: the answer to a path parameter that is not an integer,
\* one int_parsing error that carries the segment's text.
Unprocessable(segment) ==
    Response(422,
        [detail |-> << [type  |-> "int_parsing",
                        loc   |-> <<"path", "ques_number">>,
                        msg   |-> "Input should be a valid integer, unable to parse string as an integer",
                        input |-> segment] >>])

\* main.py 73, 86-88 and questions.py 200-205: a request for
\* /api/v1/questions/<segment> is resolved; the endpoint's dependencies are
\* resolved and its path parameter converted.  Code 0 stands for the
\* endpoint's body being entered; a redirect carries no body.
RouteRequest(reply, method, segment) ==
    /\ ClientIdle
    /\ LET endpoint == Resolve(method, segment)
           arg      == <<method, segment>>
           authn    == GetCurrentUser(reply)
       IN  IF endpoint = "not_found"
           THEN op' = Finished(endpoint, reply, arg, Response(404, [detail |-> "Not Found"]))
           ELSE IF endpoint = "method_not_allowed"
           THEN op' = Finished(endpoint, reply, arg,
                               Response(405, [detail |-> "Method Not Allowed"]))
           ELSE IF endpoint = "redirect_slashes"
           THEN op' = Finished(endpoint, reply, arg, Response(307, NoBody))
           ELSE IF authn.code # 0
           THEN op' = Finished(endpoint, reply, arg, authn)
           ELSE IF endpoint = "get_question" /\ IntOf(segment) = None
           THEN op' = Finished(endpoint, reply, arg, Unprocessable(segment))
           ELSE op' = Finished(endpoint, reply, arg, Response(0, NoBody))
    /\ UNCHANGED <<catalog, progress, lst, prev, now, accounts>>

\* ---------------------------------------------------------------- signup
\* The identities that may be signed up for.
NewUsers == {"u3"}

\* What supabase.auth.sign_up raises for an identity that exists.
AlreadyRegistered == "User already registered"

\* routers/auth.py 35-62: sign_up creates the identity and answers with a
\* session or, when the address has to be confirmed first, without one; for
\* an identity that exists it raises or, when addresses are confirmed,
\* answers with a user and no session.  The response model keeps
\* access_token and token_type.
SignUp(user) ==
    /\ ClientIdle
    /\ \/ /\ user \notin accounts
          /\ accounts' = accounts \cup {user}
          /\ \E session \in BOOLEAN :
               op' = [Finished("signup", NoReply, user,
                               Response(200, [access_token |-> IF session
                                                               THEN "jwt:" \o user ELSE "",
                                              token_type |-> "bearer"]))
                        EXCEPT !.calls = 1]
       \/ /\ user \in accounts
          /\ \/ op' = Failed("signup", NoReply, user, AlreadyRegistered)
             \/ op' = [Finished("signup", NoReply, user,
                                Response(200, [access_token |-> "",
                                               token_type |-> "bearer"]))
                         EXCEPT !.calls = 1]
          /\ UNCHANGED accounts
       \/ /\ \E e \in UpstreamErrors : op' = Failed("signup", NoReply, user, e)
          /\ UNCHANGED accounts
    /\ UNCHANGED <<catalog, progress, lst, prev, now>>

\* ------------------------------------------------------- walking pages
\* A client asks for page 1, 2, ... of one listing, each page once the one
\* before has been answered, up to the total_pages it is told.
WalkStart(r) ==
    /\ ClientIdle
    /\ ValidQuery(r) /\ r.page = PageMin
    /\ op' = [IdleOp EXCEPT !.name = "walk", !.pc = "walking", !.arg = r]
    /\ UNCHANGED <<catalog, progress, lst, prev, now, accounts>>

\* The request for the next page of the walk.
WalkRequests ==
    IF op.pc = "walking" /\ lst.pc = "idle"
    THEN {[op.arg EXCEPT !.page = Len(op.before) + PageMin]}
    ELSE {}

\* The page is delivered and kept; the walk ends at the last page.
WalkCollect ==
    /\ op.pc = "walking" /\ lst.pc = "done"
    /\ op' = [op EXCEPT !.before = Append(@, lst.resp.body),
                        !.calls = @ + lst.calls,
                        !.pc = IF lst.req.page >= lst.resp.body.total_pages
                               THEN "done" ELSE "walking"]
    /\ lst' = IdleListing
    /\ prev' = NoPrev
    /\ UNCHANGED <<catalog, progress, now, accounts>>

\* ---------------------------------------------------- specifications
\* Who may call: any user under any role, and the callers of the operations
\* that do not look at the role.
AnyCaller  == IdpReplies(Users, Roles)
UserCaller == IdpReplies(Users, {"student"})
OneCaller  == IdpReplies({"u1"}, {"student"})

\* First-page listings without filters.
OpsRequests ==
    {r \in PlainRequests :
        /\ r.difficulty = None /\ r.topic = None /\ r.source = None /\ r.q_type = None
        /\ r.page = 1 /\ r.size \in 0..1}

\* Listings the observed client may send next to its other requests.
FreshOps == IF op.pc = "idle" THEN Fresh(OpsRequests) ELSE {}

\* Other clients act while none of the observed client's answers is pending
\* delivery.
Quiet == op.pc # "done" /\ lst.pc # "done"

\* The operations of the questions and progress routers, one request of the
\* observed client at a time.
NextData ==
    \/ \E reply \in AnyCaller, q \in AttemptedQuestions, c \in BOOLEAN :
         PostAttempt(reply, q, c)
    \/ \E reply \in UserCaller, time_range \in TimeRanges : StatsTotal(reply, time_range)
    \/ StatsCorrect
    \/ \E reply \in UserCaller, parsed \in BOOLEAN : GetDailyStreak(reply, parsed)
    \/ \E reply \in OneCaller, n \in 1..(Cardinality(AttemptBank) + 1) : GetQuestion(reply, n)
    \/ \E reply \in OneCaller, file \in Files : ValidateExcel(reply, file)
    \/ \E reply \in OneCaller, file \in Files : ImportStart(reply, file)
    \/ InsertBatch
    \/ ImportFinish
    \/ OpReturn
    \/ \E r \in FreshOps : ListRejected(r)
    \/ \E r \in FreshOps : ListCount(r)
    \/ \E r \in FreshOps : ListCountFails(r)
    \/ ListPage
    \/ ListPageFails
    \/ ListReturn

\* Every operation of the routers main.py mounts: those and signup.
NextOps ==
    \/ NextData
    \/ \E user \in {"u1"} \cup NewUsers : SignUp(user)

SpecOps == InitAttempts /\ [][NextOps]_vars

\* The operations on the two tables with the router of admin.py, which
\* main.py does not mount: its handlers are called as admin.py declares them.
NextAdmin ==
    \/ NextData
    \/ \E reply \in AnyCaller, target \in Users : DeleteUser(reply, target)
    \/ \E reply \in AnyCaller, file \in Files : BulkUploadStart(reply, file)

SpecAdmin == InitAttempts /\ [][NextAdmin]_vars

\* The progress operations against a running clock, other clients recording
\* attempts in between.
InitProgress ==
    /\ catalog = {QuestionRow(1)}
    /\ progress = << >>
    /\ lst = IdleListing
    /\ prev = NoPrev
    /\ op = IdleOp
    /\ now = 0
    /\ accounts = Users

NextProgress ==
    \/ \E reply \in AnyCaller, q \in AttemptedQuestions, c \in BOOLEAN :
         PostAttempt(reply, q, c)
    \/ \E reply \in UserCaller, time_range \in TimeRanges : StatsTotal(reply, time_range)
    \/ StatsCorrect
    \/ \E reply \in UserCaller, parsed \in BOOLEAN : GetDailyStreak(reply, parsed)
    \/ OpReturn
    \/ (Quiet /\ AnyAttempt)
    \/ (Quiet /\ Tick)

SpecProgress == InitProgress /\ [][NextProgress]_vars

\* The topic progress over questions of two topics, attempts and imports of
\* other clients in between.
TopicQuestionIds == {1, 4}
TopicBank == {QuestionRow(n) : n \in TopicQuestionIds}

InitTopics ==
    /\ catalog \in SUBSET TopicBank
    /\ progress = << >>
    /\ lst = IdleListing
    /\ prev = NoPrev
    /\ op = IdleOp
    /\ now = 0
    /\ accounts = Users

NextTopics ==
    \/ \E reply \in UserCaller, q \in TopicQuestionIds, c \in BOOLEAN :
         PostAttempt(reply, q, c)
    \/ \E reply \in UserCaller : TopicAttempts(reply)
    \/ TopicQuestions
    \/ OpReturn
    \/ (Quiet /\ \E u \in Users, q \in TopicQuestionIds, c \in BOOLEAN : RecordAttempt(u, q, c))
    \/ (Quiet /\ AnyImport(TopicBank))

SpecTopics == InitTopics /\ [][NextTopics]_vars

\* Uploads of long sheets: the observed client imports sheets that fill
\* several batches, some with a row that fails conversion.
MaxBatches == 2

\* The sheet with questions 1..n in order.
SheetRows(n) == [i \in 1..n |-> QuestionRow(i)]

\* Sheet lengths at and just past each batch boundary.
SheetSizes == {k * BatchSize + d : k \in 0..MaxBatches, d \in {0, 1}}

\* The sheet with a failing row put before position p.
BadAt(rows, p) == SubSeq(rows, 1, p - 1) \o <<BadRow>> \o SubSeq(rows, p, Len(rows))

Sheets ==
    {SheetRows(n) : n \in SheetSizes}
        \cup UNION {{BadAt(SheetRows(n), p) : p \in {1, n + 1}} : n \in SheetSizes}

LongFiles == Uploads(Sheets)

\* The catalog is empty or holds the first question of the second batch.
InitImport ==
    /\ catalog \in {{}, {QuestionRow(BatchSize + 1)}}
    /\ progress = << >>
    /\ lst = IdleListing
    /\ prev = NoPrev
    /\ op = IdleOp
    /\ now = 0
    /\ accounts = Users

NextImport ==
    \/ \E reply \in OneCaller, file \in LongFiles : ImportStart(reply, file)
    \/ InsertBatch
    \/ ImportFinish
    \/ OpReturn

SpecImport == InitImport /\ [][NextImport]_vars

\* The same sheets handed to bulk_upload_questions, called as admin.py
\* declares it (main.py does not mount the router of admin.py).
NextBulk ==
    \/ \E reply \in IdpReplies({"u1"}, {"admin", "student"}), file \in LongFiles :
         BulkUploadStart(reply, file)
    \/ InsertBatch
    \/ ImportFinish
    \/ OpReturn

SpecBulk == InitImport /\ [][NextBulk]_vars

\* Requests for paths under /api/v1/questions/: the paths of the routes,
\* texts that are integers or close to one, texts with white space or other
\* characters around a digit, and paths with slashes or line feeds.
Segments ==
    {<< >>, FiltersPath, SearchPath, StatsPath, ImportPath, ValidatePath, RandomPath,
     PracticeSetPath, TopicsPath, SourcesPath,
     <<49>>, <<49, 50>>, <<48, 48, 55>>, <<45, 49>>, <<43, 50>>,         \* 1 12 007 -1 +2
     <<49, 46, 48>>, <<49, 46, 53>>, <<49, 46>>, <<49, 95, 48>>,         \* 1.0 1.5 1. 1_0
     <<95, 49>>, <<48, 45, 49>>, <<48, 45, 48, 49>>, <<48, 95, 95, 50>>, \* _1 0-1 0-01 0__2
     <<45, 95, 49>>, <<43, 45, 49>>, <<45, 48, 95, 95, 49>>, <<45, 48>>, \* -_1 +-1 -0__1 -0
     <<45, 45, 49>>, <<43, 43, 49>>, <<45>>,                             \* --1 ++1 -
     <<160, 51>>, <<9, 51, 13>>, <<8195, 51, 12288>>, <<233, 49>>,
     <<102, 105, 114, 115, 116>>,                                        \* first
     <<9, 51, 10>>, <<51, 10, 52>>, <<51, 10, 47>>, <<10, 51, 47>>,
     <<51, 47>>, <<51, 47, 47>>, <<47>>, <<51, 47, 52>>, <<51, 47, 52, 47>>,
     FiltersPath \o <<47>>}

NextRoutes ==
    \/ \E reply \in OneCaller, method \in {"GET", "POST", "DELETE"}, segment \in Segments :
         RouteRequest(reply, method, segment)
    \/ OpReturn

SpecRoutes == InitAttempts /\ [][NextRoutes]_vars

\* A walk over the pages of a listing against a store nobody writes to.
NextWalk ==
    \/ \E r \in PlainRequests : WalkStart(r)
    \/ \E r \in WalkRequests : ListCount(r)
    \/ ListPage
    \/ WalkCollect
    \/ OpReturn

SpecWalk == Init /\ [][NextWalk]_vars

\* =================================================================
\* Properties
\* =================================================================
\* The request served, its answer, and whether the answer is a page.
Req  == lst.req
Body == lst.resp.body
Served == lst.pc = "done" /\ lst.resp.code = 200

\* The catalog was the same at the count query and at the page query.
CatalogStable == lst.cntCat = lst.pageCat

\* A row satisfies every filter the request supplies (a blank string is
\* not a supplied filter).
Satisfies(row, r) ==
    /\ (r.difficulty \notin {None, Some("")} => row.difficulty = r.difficulty[1])
    /\ (r.topic \notin {None, Some("")} => row.topic = r.topic[1])
    /\ (r.source \notin {None, Some("")} => row.source = r.source[1])
    /\ (r.q_type # None => row.q_type = r.q_type[1])

Matching(r, table) == {row \in table : Satisfies(row, r)}

\* How many matching rows come before a row in identifier order.
Position(row, r, table) ==
    Cardinality({x \in Matching(r, table) : x.ques_number < row.ques_number})

\* C1: every page answered reports total_pages = ceil(total / size), the
\* least k with k * size >= total, and total_pages = 0 iff total = 0.
C1_TotalPagesIsCeiling ==
    Served =>
        /\ Body.total = lst.total_count /\ Body.total >= 0
        /\ Body.size = Req.size /\ Body.size \in SizeMin..SizeLimit
        /\ Body.total_pages * Body.size >= Body.total
        /\ (Body.total_pages - 1) * Body.size < Body.total
        /\ (Body.total_pages = 0 <=> Body.total = 0)

\* C1 witness: a total that the page size does not divide, over several pages.
C1_Witness ==
    Served /\ Body.total > Body.size /\ Body.total % Body.size # 0

\* C2: has_next = (page < total_pages), has_previous = (page > 1), next_page
\* is page + 1 exactly when has_next and none otherwise, previous_page is
\* page - 1 exactly when has_previous and none otherwise.
C2_Navigation ==
    Served =>
        /\ Body.page = Req.page
        /\ Body.has_next = (Req.page < Body.total_pages)
        /\ Body.has_previous = (Req.page > 1)
        /\ (Body.has_next => Body.next_page = <<Req.page + 1>>)
        /\ (~Body.has_next => Body.next_page = None)
        /\ (Body.has_previous => Body.previous_page = <<Req.page - 1>>)
        /\ (~Body.has_previous => Body.previous_page = None)

\* C2 witness: a middle page, with a page on either side.
C2_Witness == Served /\ Body.has_next /\ Body.has_previous

\* C3: the items are exactly the rows at positions (page-1)*size ..
\* (page-1)*size + size - 1 of the matching rows in ascending identifier
\* order: item i is the matching row with (page-1)*size + i - 1 matching rows
\* before it, and no row at one of these positions is left out.
C3_PageIsSlice ==
    Served =>
        LET first == (Req.page - 1) * Req.size
            rows  == Matching(Req, lst.pageCat)
            wanted == {x \in rows : Position(x, Req, lst.pageCat) \in first..(first + Req.size - 1)}
        IN  /\ Len(Body.items) <= Req.size
            /\ Len(Body.items) = Cardinality(wanted)
            /\ \A i \in 1..Len(Body.items) :
                 /\ Body.items[i] \in rows
                 /\ Position(Body.items[i], Req, lst.pageCat) = first + i - 1
            /\ \A i, j \in 1..Len(Body.items) :
                 i < j => Body.items[i].ques_number < Body.items[j].ques_number

\* C3 witness: a second page, reached past a full first page of two rows.
C3_Witness ==
    Served /\ Req.page = 2 /\ Req.size = 2 /\ Len(Body.items) = 1 /\ Body.total = 3

C5_SameFilters ==
    Served =>
        /\ \A i \in 1..Len(Body.items) : Satisfies(Body.items[i], Req)
        /\ (CatalogStable => Body.total = Cardinality(Matching(Req, lst.pageCat)))

\* C5 witness: all four filters supplied, a row that passes and a row that
\* fails only the source filter.
C5_Witness ==
    /\ Served /\ CatalogStable /\ Body.total = 1 /\ Len(Body.items) = 1
    /\ Req.difficulty = Some("hard") /\ Req.topic = Some("algebra")
    /\ Req.source = Some("2019") /\ Req.q_type = Some(0)
    /\ \E row \in lst.pageCat :
         /\ row.source # "2019" /\ row.difficulty = "hard"
         /\ row.topic = "algebra" /\ row.q_type = 0

\* C8: when a request is repeated unchanged and the catalog is the same at
\* every query of both calls, the second answer equals the first.
C8_Idempotent ==
    (Served /\ prev # NoPrev /\ CatalogStable /\ prev.cat = lst.pageCat) =>
        lst.resp = prev.resp

\* C8 witness: a repeated request whose page holds two rows.
C8_Witness ==
    /\ Served /\ prev # NoPrev /\ CatalogStable /\ prev.cat = lst.pageCat
    /\ Len(Body.items) = 2 /\ Body.total > 2

\* An attempt was recorded between the count query and the page query.
AttemptBetween == lst.cntProg # lst.pageProg

\* The page holds as many rows as its total promises for that page.
ImpliedLength(total, page, size) ==
    LET rest == total - (page - 1) * size
    IN  IF rest <= 0 THEN 0 ELSE IF rest < size THEN rest ELSE size

\* The store as one request sees it: the catalog and the attempts recorded.
StoreAt(table, prog) == [catalog |-> table, progress |-> prog]

\* The store after record_attempt has inserted one more attempt.
Recorded(store, attempt) == [store EXCEPT !.progress = Append(@, attempt)]

\* questions.py 40-54: the total get_questions counts for request r.
CountAt(r, store) ==
    ExecuteCount(ApplyFilters(TableSelect, r.difficulty, r.topic, r.source, r.q_type),
                 store.catalog)

\* questions.py 56-58: the pages get_questions may read for request r.
PageAt(r, store) ==
    LET skip == Skip(r.page, r.size)
    IN  ExecuteData(Order(Range(ApplyFilters(TableSelect, r.difficulty, r.topic,
                                             r.source, r.q_type),
                                skip, skip + r.size - 1), "ques_number"),
                    store.catalog)

\* The listings C6 is tried on: every valid request, with or without a
\* status filter.
SkewRequests == {r \in ListRequests(Users, StatusInputs) : ValidQuery(r)}

\* C6: an attempt recorded between the count query and the page query of one
\* listing can make its total and its page disagree: with questions in the
\* catalog there are a listing request and an attempt of the listing user on
\* a catalogued question such that the total counted before the attempt is
\* recorded and the page read after it do not fit together.
C6_AttemptBetweenCanSkew ==
    catalog # {} =>
        \E r \in SkewRequests, row \in catalog, c \in BOOLEAN :
            LET store == StoreAt(catalog, progress)
            IN  \E data \in PageAt(r, Recorded(store, AttemptData(r.user, row.ques_number, c))) :
                    Len(data) # ImpliedLength(CountAt(r, store), r.page, r.size)

\* C7: every step of get_questions, answering or failing, leaves table TMUA
\* and table user_progress as they were.
C7_ReadOnly ==
    [][lst' # lst => (catalog' = catalog /\ progress' = progress)]_vars

\* C7 witness: a listing failed at its page query, after a count query that
\* succeeded, with rows in both tables.
C7_Witness ==
    /\ lst.pc = "done" /\ lst.resp.code = 400 /\ lst.total_count > 0
    /\ lst.pageCat # {} /\ lst.pageProg # << >>

\* The status a listed item carries, if it carries one.
Status(item) == IF "status" \in DOMAIN item THEN item.status ELSE "absent"

\* The positions of a user's attempts on a question.
AttemptsOn(u, q, prog) ==
    {k \in 1..Len(prog) : prog[k].user_id = u /\ prog[k].question_id = q}

\* C9: a listed question the user answered correctly before the listing (and
\* never incorrectly) is shown with status "correct".
C9_StatusShown ==
    Served =>
        \A i \in 1..Len(Body.items) :
            LET q      == Body.items[i].ques_number
                before == AttemptsOn(Req.user, q, lst.cntProg)
                all    == AttemptsOn(Req.user, q, lst.pageProg)
            IN  (before # {} /\ (\A k \in all : lst.pageProg[k].is_correct))
                    => Status(Body.items[i]) = "correct"

\* The user answered the question correctly and, later and last, incorrectly.
CorrectThenIncorrect(u, q, prog) ==
    LET mine == AttemptsOn(u, q, prog)
    IN  \E k, j \in mine :
          /\ k < j /\ prog[k].is_correct /\ ~prog[j].is_correct
          /\ \A m \in mine : m <= j

\* C10: with status filter {correct} the listing holds only questions whose
\* last recorded attempt by the user is correct: a question answered correctly
\* and then incorrectly is not listed.
C10_CorrectFilter ==
    (Served /\ Req.status = {"correct"} /\ ~AttemptBetween) =>
        \A i \in 1..Len(Body.items) :
            ~CorrectThenIncorrect(Req.user, Body.items[i].ques_number, lst.pageProg)

\* The status of a question for a user under the last-recorded-attempt rule.
LastStatus(u, q, prog) ==
    LET mine == AttemptsOn(u, q, prog)
    IN  IF mine = {} THEN "unattempted"
        ELSE LET last == CHOOSE k \in mine : \A m \in mine : m <= k
             IN  IF prog[last].is_correct THEN "correct" ELSE "incorrect"

\* The catalog identifiers a status filter makes eligible: those whose status
\* was requested, the never attempted ones included when "unattempted" is asked.
EligibleIds(u, statuses, prog, table) ==
    {row.ques_number : row \in {x \in table : LastStatus(u, x.ques_number, prog) \in statuses}}

\* C11: when the status filter contains unattempted, the questions listed are
\* among the requested correct/incorrect ones and the catalog questions the
\* user never attempted, and total counts exactly that eligible set; with
\* unattempted alone it is the catalog questions the user never attempted.
C11_UnattemptedEligible ==
    (Served /\ "unattempted" \in Req.status /\ ~AttemptBetween /\ CatalogStable) =>
        LET eligible == EligibleIds(Req.user, Req.status, lst.pageProg, lst.pageCat)
        IN  /\ \A i \in 1..Len(Body.items) : Body.items[i].ques_number \in eligible
            /\ Body.total = Cardinality(eligible)

\* C12: a listing asked for status {correct} by a user with no attempt
\* recorded answers with no items, total = 0 and total_pages = 0, and has
\* issued no catalog query.
C12_EmptyEligibleShortCircuit ==
    (Served /\ Req.status = {"correct"}
            /\ \A k \in 1..Len(lst.pageProg) : lst.pageProg[k].user_id # Req.user) =>
        /\ Body.items = << >>
        /\ Body.total = 0
        /\ Body.total_pages = 0
        /\ lst.calls = 0

\* The request of the observed client has been answered.
Answered(name) == op.pc = "done" /\ op.name = name

\* C13 as stated: attempts are append-only: along every step the table
\* user_progress keeps all its rows, unchanged and in place, and only grows.
C13_AppendOnly ==
    [][/\ Len(progress') >= Len(progress)
       /\ SubSeq(progress', 1, Len(progress)) = progress]_vars

\* C13 amended: a record_attempt that answers 200 adds exactly one row, owned
\* by the caller and carrying the submitted question and correctness; no step
\* updates a row; the only step that removes rows is delete_user called by an
\* admin, which removes every row of the user it names and no other row.
C13_AppendOrDeleteUser ==
    [][/\ (op.pc = "idle" /\ op'.name = "record_attempt" /\ op'.resp.code = 200) =>
             /\ Len(progress') = Len(progress) + 1
             /\ SubSeq(progress', 1, Len(progress)) = progress
             /\ progress'[Len(progress')].user_id = op'.auth.id
             /\ progress'[Len(progress')].question_id = op'.arg[1]
             /\ progress'[Len(progress')].is_correct = op'.arg[2]
       /\ (progress' # progress) =>
             \/ /\ Len(progress') = Len(progress) + 1
                /\ SubSeq(progress', 1, Len(progress)) = progress
             \/ /\ op.pc = "idle" /\ op'.name = "delete_user"
                /\ op'.auth.role = "admin"
                /\ \A k \in 1..Len(progress') : progress'[k].user_id # op'.arg
                /\ Len(progress') =
                     Cardinality({k \in 1..Len(progress) : progress[k].user_id # op'.arg})
                /\ \A k \in 1..Len(progress') : \E j \in k..Len(progress) :
                     progress[j] = progress'[k]]_vars

\* C13 witness: the second user's attempt has been recorded after another row.
C13_Witness ==
    /\ Answered("record_attempt") /\ op.resp.code = 200 /\ op.auth.id = "u2"
    /\ Len(progress) = 2 /\ progress[2] = op.resp.body /\ progress[2].user_id = "u2"

\* C14: GET /questions/{id} answers 200 with the question of that identifier
\* when the catalog holds one, and 404 when it holds none.
C14_SingleOr404 ==
    (Answered("get_question") /\ op.auth.kind = "user" /\ op.raised = None) =>
        IF \E row \in catalog : row.ques_number = op.arg
        THEN /\ op.resp.code = 200
             /\ op.resp.body \in catalog
             /\ op.resp.body.ques_number = op.arg
        ELSE op.resp.code = 404

\* C15: whenever the identity provider raises, answers without a user or
\* answers nothing, the request ends at once with 401 and the fixed detail
\* "Invalid authentication credentials", never the provider's error text, and
\* the handler has made no remote call and changed neither table.
C15_AuthFailureIs401 ==
    [][(op' # op /\ op'.auth.kind \in {"raises", "no_user", "no_response"}) =>
          /\ op'.pc = "done"
          /\ op'.resp.code = 401
          /\ op'.resp.body.detail = "Invalid authentication credentials"
          /\ op'.resp.body.detail \notin IdpErrors
          /\ op'.calls = 0
          /\ catalog' = catalog /\ progress' = progress]_vars

\* C15 witness: the provider raised on a record_attempt request.
C15_Witness ==
    /\ Answered("record_attempt") /\ op.auth.kind = "raises"
    /\ op.auth.msg \in IdpErrors /\ op.resp.code = 401

\* The operations of the questions and progress routers.
RouterOps ==
    {"record_attempt", "get_user_stats", "get_daily_streak", "get_question",
     "validate_excel", "import_questions"}

\* The remote calls an operation makes when none fails.
CallsOf(name) ==
    IF name \in {"get_questions", "get_user_stats"} THEN 2 ELSE 1

\* C16 as stated: a remote call that fails inside an operation of the
\* questions or progress router is answered 400 with the upstream message as
\* detail.
C16_UpstreamIs400 ==
    /\ (lst.pc = "done" /\ lst.raised # None) =>
           (lst.resp.code = 400 /\ lst.resp.body.detail = lst.raised[1])
    /\ (op.pc = "done" /\ op.name \in RouterOps /\ op.raised # None) =>
           (op.resp.code = 400 /\ op.resp.body.detail = op.raised[1])

\* C16 amended: a remote call that fails inside an operation of the questions
\* or progress router other than import_questions is answered 400 with the
\* upstream message as detail, never 500, and no remote call is made after the
\* failed one; in import_questions a batch insert that fails is skipped, every
\* batch is tried once, and the answer is 200 with the rows counted as
\* processed but not as imported.
C16_UpstreamIs400ExceptImport ==
    /\ (lst.pc = "done" /\ lst.raised # None) =>
           /\ lst.resp.code = 400 /\ lst.resp.body.detail = lst.raised[1]
           /\ lst.calls <= CallsOf("get_questions")
           /\ (lst.calls = 1 => lst.pageCat = {} /\ lst.query.range = None)
    /\ (op.pc = "done" /\ op.name \in RouterOps \ {"import_questions"}
                       /\ op.raised # None) =>
           /\ op.resp.code = 400 /\ op.resp.body.detail = op.raised[1]
           /\ op.calls <= CallsOf(op.name)
    /\ (Answered("import_questions") /\ op.raised # None) =>
           /\ op.resp.code = 200
           /\ op.resp.body.successful_imports < op.resp.body.total_processed
           /\ op.calls = Len(Batches(Converted(op.arg)))

\* C16 witness: the page query of a listing failed after its count query.
C16_Witness ==
    /\ lst.pc = "done" /\ lst.raised # None /\ lst.calls = 2
    /\ lst.resp.code = 400 /\ lst.resp.body.detail \in UpstreamErrors

\* C17: a caller whose role is not among the roles an operation allows is
\* answered 403 before the operation makes any remote call, and both tables
\* stay as they were; record_attempt (student, teacher) adds a row only for a
\* student or a teacher, delete_user (admin) removes rows only for an admin.
C17_RoleGate ==
    [][/\ (op.pc = "idle" /\ op'.name = "record_attempt" /\ op'.auth.kind = "user"
                          /\ op'.auth.role \notin {"student", "teacher"}) =>
             /\ op'.pc = "done" /\ op'.resp.code = 403 /\ op'.calls = 0
             /\ progress' = progress /\ catalog' = catalog
       /\ (op.pc = "idle" /\ op'.name = "delete_user" /\ op'.auth.kind = "user"
                          /\ op'.auth.role # "admin") =>
             /\ op'.pc = "done" /\ op'.resp.code = 403 /\ op'.calls = 0
             /\ progress' = progress /\ catalog' = catalog
       /\ (op.pc = "idle" /\ op'.name = "record_attempt" /\ progress' # progress) =>
             op'.auth.role \in {"student", "teacher"}]_vars

\* C17 witness: an admin's record_attempt was turned away with rows stored.
C17_Witness ==
    /\ Answered("record_attempt") /\ op.auth.kind = "user" /\ op.auth.role = "admin"
    /\ op.resp.code = 403 /\ Len(progress) = 1

\* C18: only the batch inserts of import_questions and bulk_upload_questions
\* change table TMUA; every step of every other operation leaves it as it was.
C18_CatalogOnlyByImport ==
    [][catalog' # catalog =>
          /\ op.pc = "importing"
          /\ op.name \in {"import_questions", "bulk_upload_questions"}
          /\ op'.name = op.name
          /\ catalog \subseteq catalog'
          /\ catalog' \ catalog \subseteq {op.arg.rows[i] : i \in 1..Len(op.arg.rows)}
          /\ lst' = lst /\ progress' = progress]_vars

\* C18 witness: validate_excel accepted a sheet with a row table TMUA lacks.
C18_Witness ==
    /\ Answered("validate_excel") /\ op.resp.code = 200
    /\ op.resp.body.valid /\ op.resp.body.total_rows = 2
    /\ \E i \in 1..Len(op.arg.rows) : op.arg.rows[i] \notin catalog

\* C19: get_user_stats answers with correct_answers <= total_attempts and an
\* accuracy of correct_answers / total_attempts * 100 within 0..100 (0 when
\* total_attempts = 0), also when attempts are recorded between its queries.
C19_CorrectWithinTotal ==
    (Answered("get_user_stats") /\ op.resp.code = 200) =>
        LET body == op.resp.body
        IN  /\ body.correct_answers <= body.total_attempts
            /\ body.accuracy.num >= 0
            /\ body.accuracy.num <= 100 * body.accuracy.den
            /\ (body.total_attempts = 0 => body.accuracy.num = 0)
            /\ (body.total_attempts # 0 =>
                   body.accuracy.num * body.total_attempts
                       = body.correct_answers * 100 * body.accuracy.den)

\* The calendar days on which a user has an attempt.
PracticeDays(u, prog) ==
    {Date(prog[k].attempted_at) : k \in {j \in 1..Len(prog) : prog[j].user_id = u}}

RECURSIVE Run(_, _)
\* The consecutive days of a set that end at day d.
Run(days, d) == IF d \in days THEN 1 + Run(days, d - 1) ELSE 0

SeenAttempts == op.before
SeenOn(t) ==
    {k \in 1..Len(SeenAttempts) :
        \E row \in catalog : /\ row.ques_number = SeenAttempts[k].question_id
                             /\ row.topic = t}
SeenCatalogued ==
    {k \in 1..Len(SeenAttempts) :
        \E row \in catalog : row.ques_number = SeenAttempts[k].question_id}

RECURSIVE SumTotals(_)
SumTotals(entries) ==
    IF entries = << >> THEN 0
    ELSE Head(entries).total_attempts + SumTotals(Tail(entries))

\* C21: get_topic_progress answers with one entry per topic on which the
\* caller has an attempt; an entry's total_attempts is the number of the
\* caller's attempts on catalogued questions of the topic and its
\* correct_attempts the number of those that are correct, so correct is at
\* most total; the totals add up to the caller's attempts on catalogued
\* questions, attempts on identifiers the catalog lacks being ignored.
C21_TopicProgress ==
    (Answered("get_topic_progress") /\ op.resp.code = 200) =>
        LET entries == op.resp.body
        IN  /\ \A k \in 1..Len(SeenAttempts) : SeenAttempts[k].user_id = op.auth.id
            /\ Len(SeenAttempts) <= Cardinality({k \in 1..Len(progress) :
                                                  progress[k].user_id = op.auth.id})
            /\ \A i, j \in 1..Len(entries) : entries[i].topic = entries[j].topic => i = j
            /\ {entries[i].topic : i \in 1..Len(entries)}
                   = {row.topic : row \in {r \in catalog : SeenOn(r.topic) # {}}}
            /\ \A i \in 1..Len(entries) :
                 /\ entries[i].total_attempts = Cardinality(SeenOn(entries[i].topic))
                 /\ entries[i].correct_attempts
                        = Cardinality({k \in SeenOn(entries[i].topic) :
                                          SeenAttempts[k].is_correct})
                 /\ entries[i].correct_attempts <= entries[i].total_attempts
            /\ SumTotals(entries) = Cardinality(SeenCatalogued)

\* An incorrect attempt is counted under its topic while another attempt of
\* the caller, on a question the catalog lacks, is ignored.
C21_Witness ==
    /\ Answered("get_topic_progress") /\ op.resp.code = 200
    /\ \E i \in 1..Len(op.resp.body) :
         op.resp.body[i].correct_attempts < op.resp.body[i].total_attempts
    /\ SeenCatalogued # {}
    /\ SeenCatalogued # 1..Len(SeenAttempts)


\* ------------------------------------------------------------------
RECURSIVE TriedRows(_)
\* The rows of the batches in the order the batches were sent.
TriedRows(tried) ==
    IF tried = << >> THEN << >> ELSE Head(tried).rows \o TriedRows(Tail(tried))

RECURSIVE LandedCount(_)
\* The rows handed back by the batches whose insert succeeded.
LandedCount(tried) ==
    IF tried = << >> THEN 0
    ELSE (IF Head(tried).ok THEN Head(tried).returned ELSE 0) + LandedCount(Tail(tried))

\* C22: import_questions sends the parsed rows in consecutive batches of at
\* most 50 rows in file order; a failing batch is skipped and the later
\* batches are still sent; the answer is a success whose successful_imports
\* is the number of rows handed back by the inserts that succeeded (all the
\* rows of the batch or none), between 0 and total_processed, no row of a
\* failed batch being counted or stored.
C22_BatchedImport ==
    (Answered("import_questions") /\ GetCurrentUser(op.auth).code = 0
        /\ op.arg.excel /\ op.arg.readable) =>
        /\ TriedRows(op.tried) = Converted(op.arg)
        /\ \A i \in 1..Len(op.tried) :
             /\ Len(op.tried[i].rows) >= 1 /\ Len(op.tried[i].rows) <= BatchSize
             /\ i < Len(op.tried) => Len(op.tried[i].rows) = BatchSize
             /\ op.tried[i].ok =>
                  \A k \in 1..Len(op.tried[i].rows) : op.tried[i].rows[k] \in catalog
             /\ op.tried[i].returned \in {0, Len(op.tried[i].rows)}
             /\ ~op.tried[i].ok => op.tried[i].returned = 0
        /\ op.resp.code = 200
        /\ op.resp.body.total_processed = Len(Converted(op.arg))
        /\ op.resp.body.successful_imports = LandedCount(op.tried)
        /\ op.resp.body.successful_imports >= 0
        /\ op.resp.body.successful_imports <= op.resp.body.total_processed

\* Three batches were sent: the second failed and its rows were not counted,
\* the third was inserted after it.
C22_Witness ==
    /\ Answered("import_questions") /\ op.resp.code = 200
    /\ Len(op.tried) = 3
    /\ op.tried[1].ok /\ ~op.tried[2].ok /\ op.tried[3].ok
    /\ op.resp.body.successful_imports = BatchSize + 1
    /\ op.resp.body.total_processed = 2 * BatchSize + 1
    /\ op.tried[2].rows[2] \notin catalog

\* Whether some row of the sheet fails validation.
SomeRowFails(file) == \E i \in 1..Len(file.rows) : RowFails(file, i)

\* C23: bulk_upload_questions is all-or-nothing in row validation: when a row
\* fails validation no insert is sent and the answer carries status
\* "partial_success" or "failed" with the list of errors; rows are inserted
\* only when every row validated.
C23_AllOrNothing ==
    (op.name = "bulk_upload_questions" /\ CheckRoles(AdminRoles, op.auth).code = 0
        /\ SomeRowFails(op.arg)) =>
        /\ op.pc = "done" /\ op.tried = << >> /\ op.calls = 0
        /\ op.resp.code = 200
        /\ op.resp.body.status \in {"partial_success", "failed"}
        /\ op.resp.body.status = "partial_success" <=>
               \E i \in 1..Len(op.arg.rows) : ~RowFails(op.arg, i)
        /\ Len(op.resp.body.errors)
               = Cardinality({i \in 1..Len(op.arg.rows) : RowFails(op.arg, i)})

\* A sheet with rows that validated and one that did not: nothing is stored.
C23_Witness ==
    /\ Answered("bulk_upload_questions") /\ op.resp.code = 200
    /\ op.resp.body.status = "partial_success"
    /\ op.resp.body.valid_count > BatchSize
    /\ Len(op.resp.body.errors) = 1
    /\ \E i \in 1..Len(op.arg.rows) : ~RowFails(op.arg, i) /\ op.arg.rows[i] \notin catalog


\* ------------------------------------------------------------------
\* C24: delete_user removes the user's attempts and then the identity: a
\* request of an admin that no remote failure interrupts is answered with
\* success, after which no attempt of that user remains and the identity is
\* gone; a request answered 400 leaves the identity in place.
C24_DeleteUserCompletes ==
    (Answered("delete_user") /\ CheckRoles(AdminRoles, op.auth).code = 0) =>
        IF op.raised = None
        THEN /\ op.resp.code = 200
             /\ \A k \in 1..Len(progress) : progress[k].user_id # op.arg
             /\ op.arg \notin accounts
        ELSE /\ op.resp.code = 400
             /\ op.arg \in accounts


\* ------------------------------------------------------------------
\* The endpoint declared for a static path of the questions router.
OwnEndpoint ==
    [s \in {FiltersPath, SearchPath, StatsPath, RandomPath, PracticeSetPath,
            TopicsPath, SourcesPath} |->
        CASE s = FiltersPath     -> "get_filter_options"
          [] s = SearchPath      -> "search_questions"
          [] s = StatsPath       -> "get_questions_stats"
          [] s = RandomPath      -> "get_random_question"
          [] s = PracticeSetPath -> "generate_practice_set"
          [] s = TopicsPath      -> "get_topics"
          [] s = SourcesPath     -> "get_sources"]

\* C25: every static path of the questions router is reachable: a GET for
\* /questions/random, /practice-set, /topics or /sources is served by its own
\* endpoint and not by /questions/{ques_number}, as /filters, /search and
\* /stats are.
C25_StaticReachable ==
    \A s \in DOMAIN OwnEndpoint :
        (op.pc = "done" /\ op.arg = <<"GET", s>>) => op.name = OwnEndpoint[s]


\* ------------------------------------------------------------------
\* Rows matching the request that an import stored between the count query
\* and the page query.
ImportedBetween == Matching(Req, lst.pageCat) \ lst.cntCat

\* C26: when an import_questions batch of rows matching the request's
\* filters lands between the count query and the page query of one
\* get_questions request, the answer pairs the total taken before the insert
\* with items taken after it: total is smaller than the number of matching
\* rows at the time of the page query.
C26_ImportBetween ==
    Served =>
        /\ Body.total = Cardinality(Matching(Req, lst.cntCat))
        /\ \A i \in 1..Len(Body.items) : Body.items[i] \in Matching(Req, lst.pageCat)
        /\ ImportedBetween # {} =>
             Body.total < Cardinality(Matching(Req, lst.pageCat))

\* A matching row is imported between the two queries; the page shows the
\* rows the total counted and has_next is false, while the imported row lies
\* beyond the page.
C26_Witness ==
    /\ Served /\ ImportedBetween # {}
    /\ Body.total < Cardinality(Matching(Req, lst.pageCat))
    /\ Len(Body.items) >= 1 /\ ~Body.has_next
    /\ \E row \in ImportedBetween :
         \A i \in 1..Len(Body.items) : Body.items[i].ques_number < row.ques_number


\* ------------------------------------------------------------------
\* The pages a finished walk collected, and where a row was shown.
WalkPages == op.before
ShownAt(row) ==
    {pi \in UNION {{<<p, i>> : i \in 1..Len(WalkPages[p].items)} : p \in 1..Len(WalkPages)} :
        WalkPages[pi[1]].items[pi[2]] = row}

RECURSIVE SumItems(_)
SumItems(pages) ==
    IF pages = << >> THEN 0 ELSE Len(Head(pages).items) + SumItems(Tail(pages))

\* C27: against an unchanged store, for fixed filters and size, the item
\* lists of pages 1..total_pages partition the filtered catalog: every
\* matching question is on exactly one page, no question on two, every page
\* before the last holds exactly size items, and the item counts add up to
\* total.
C27_PagesPartition ==
    (op.name = "walk" /\ op.pc = "done") =>
        LET rows == Matching(op.arg, catalog)
            last == WalkPages[1].total_pages
        IN  /\ Len(WalkPages) = (IF last = 0 THEN 1 ELSE last)
            /\ \A p \in 1..Len(WalkPages) :
                 /\ WalkPages[p].page = p
                 /\ WalkPages[p].total_pages = last
                 /\ WalkPages[p].total = Cardinality(rows)
                 /\ p < last => Len(WalkPages[p].items) = op.arg.size
                 /\ \A i \in 1..Len(WalkPages[p].items) : WalkPages[p].items[i] \in rows
            /\ \A row \in rows : Cardinality(ShownAt(row)) = 1
            /\ SumItems(WalkPages) = Cardinality(rows)

\* A walk of two pages over three matching questions, the last page partial.
C27_Witness ==
    /\ op.name = "walk" /\ op.pc = "done"
    /\ Len(WalkPages) = 2 /\ op.arg.size = 2
    /\ Len(WalkPages[2].items) = 1
    /\ Cardinality(Matching(op.arg, catalog)) = 3

====
